---- MODULE Spec2Model ----
(***************************************************************************)
(* Air-quality dashboard (Atmosense): the orchestration layer of the App   *)
(* component -- notification permission, the reading cycle (fetchAqi),     *)
(* the alert cooldown (pushNotification), the location fallback chain and  *)
(* the auto-refresh scheduler -- as a state machine.                       *)
(*                                                                         *)
(* Conventions.                                                            *)
(*  - An optional value (null / undefined in the source) is the empty      *)
(*    sequence None; a present value x is Some(x) = <<x>>.                 *)
(*  - AQI values are held in tenths (160 is 1600), so that a non-integer   *)
(*    provider value and Math.round are computed, not assumed.             *)
(*  - Coordinates are held in units of 0.0001 degree.                      *)
(*  - Text is a sequence of one-character strings, so that trim() is       *)
(*    computed.                                                            *)
(*  - A React callback memoised with useCallback sees the state of the     *)
(*    render that created it.  The part of the state fetchAqi closes over  *)
(*    (alertThreshold, city, notificationStatus) travels with every call   *)
(*    as its closure environment "env"; an asynchronous call keeps the env *)
(*    it started with until it completes.                                  *)
(*  - Every handler is a function from the state record S to a state       *)
(*    record; an action commits Render(old, Handler(old)), where Render    *)
(*    re-runs the effects whose dependencies changed.                      *)
(***************************************************************************)
EXTENDS Integers, Sequences, FiniteSets, TLC

VARIABLES
  mounted,                \* the component has mounted (mount effects ran)
  now,                    \* Date.now(), in ms
  notificationStatus,     \* useState("off")
  permPending,            \* Notification.requestPermission() is awaiting the user
  alertThreshold,         \* useState(150)
  city,                   \* useState(""), the city text box
  location,               \* useState(null)
  locationRef,            \* useRef(null), synced to location by an effect
  locationStatus,         \* useState("Idle")
  locationLabel,          \* useState("Awaiting live location…")
  lastLocationRef,        \* useRef(null), last Live fix that triggered a reading
  geoSupported,           \* "geolocation" in navigator (fixed for a run)
  geoSilent,              \* the browser's location prompt is never answered, so the
                          \* watch and the position reads never call back (fixed for a run)
  watchOpen,              \* a geolocation watchPosition subscription is open
  watches,                \* watchPosition subscriptions opened and not cleared
  unmounted,              \* the component was torn down
                          \* and still reports
  oneShots,               \* pending getCurrentPosition reads (the env of their handlers)
  idleTimer,              \* the setTimeout of the idle-timeout effect, if armed
  idleFiredAt,            \* observation: when the idle timeout first ran its callback
  lastResolvedPlacenameRef, \* useRef(null), the coordinates last resolved and their label
  isMapLoaded,            \* useJsApiLoader().isLoaded, with window.google
  geocodes,               \* reverse-geocode requests awaiting their callback
  cityRankings,           \* useState({ loading: false, data: [], error: null })
  rankingBatch,           \* the responses of the ranking requests of the last refresh
  arg,                    \* the argument a pure function is applied to
  result,                 \* what the function returned for arg
  ipFallbackTriggeredRef, \* useRef(false), the single-flight guard
  ipLookups,              \* IP geolocation lookups in flight (each with its env)
  inflight,               \* reading cycles in flight (request or persistence write)
  aqi,                    \* useState(null), the displayed value
  lastAlertRef,           \* useRef({timestamp: 0, signature: null})
  alertLog,               \* useState([])
  history,                \* useState([])
  autoRefreshEnabled,     \* useState(false)
  autoRefreshMinutes,     \* useState(10)
  nextAutoRefresh,        \* useState(null)
  timers,                 \* live setInterval timers of the page
  effectTimer,            \* the timer handle held by the auto-refresh effect's cleanup
  calls,                  \* observation: calls and prompts made by the last step, in order
  shown,                  \* observation: notifications displayed by the last step
  shownAt,                \* observation: signatures displayed and when, latest first
  readings,               \* observation: the readings evaluated so far, oldest first
  started                 \* observation: number of provider requests issued so far

vars == <<mounted, now, notificationStatus, permPending, alertThreshold, city,
          location, locationRef, locationStatus, lastLocationRef, geoSupported,
          geoSilent, watchOpen, watches, unmounted, oneShots, idleTimer,
          idleFiredAt,
          locationLabel, lastResolvedPlacenameRef, isMapLoaded, geocodes,
          cityRankings, rankingBatch, arg, result,
          ipFallbackTriggeredRef, ipLookups, inflight, aqi, lastAlertRef,
          alertLog, history, autoRefreshEnabled, autoRefreshMinutes,
          nextAutoRefresh, timers, effectTimer, calls, shown, shownAt, readings,
          started>>

----------------------------------------------------------------------------
(* Optional values *)

None == <<>>

Some(x) == <<x>>

IsSome(o) == o # <<>>

Val(o) == o[1]

Max(a, b) == IF a >= b THEN a ELSE b

Abs(a) == IF a >= 0 THEN a ELSE 0 - a

----------------------------------------------------------------------------
(* Program constants *)

FALLBACK_IAQI_KEYS == <<"pm25", "pm10", "o3", "no2", "so2", "co">>

CITY_RANKING_CANDIDATES ==
  <<"Delhi", "Mumbai", "Bengaluru", "Chennai", "Kolkata", "Hyderabad">>

ALERT_COOLDOWN_MS == 5 * 60 * 1000

DEFAULT_THRESHOLD == 150

DEFAULT_REFRESH_MINUTES == 10

ALERT_LOG_CAP == 5

HISTORY_CAP == 6

MS_PER_MINUTE == 60000

CADENCE_OPTIONS == {5, 10, 15, 30, 60}

\* ~50 m motion threshold of the Live effect, 0.0005 degree
MOTION_THRESHOLD == 5

\* setTimeout(..., 6000) of the idle-timeout effect
IDLE_TIMEOUT_MS == 6000

\* reuse threshold of the reverse-geocode effect, 0.001 degree
GEOCODE_REUSE_THRESHOLD == 10

----------------------------------------------------------------------------
(* Time *)

\* the clock advances in steps of half a cooldown window
TickMs == ALERT_COOLDOWN_MS \div 2

\* Date.now() when the component mounts
\* the clock step of the runs about the idle timeout
IdleTickMs == IDLE_TIMEOUT_MS \div 2

MountTime == 2 * ALERT_COOLDOWN_MS

----------------------------------------------------------------------------
(* Pure helpers of the source *)

\* Math.round on a value in tenths: floor(x + 0.5)
MathRound(t) == (t + 5) \div 10

\* String.prototype.trim on a sequence of characters
RECURSIVE TrimLeft(_)
TrimLeft(s) == IF s # <<>> /\ Head(s) = " " THEN TrimLeft(Tail(s)) ELSE s

RECURSIVE TrimRight(_)
TrimRight(s) ==
  IF s # <<>> /\ s[Len(s)] = " " THEN TrimRight(SubSeq(s, 1, Len(s) - 1)) ELSE s

Trim(s) == TrimRight(TrimLeft(s))

\* Number.prototype.toFixed(2) on a coordinate in 0.0001 degree: hundredths
ToFixed2(u) == (u + 50) \div 100

\* A JSON value as the provider sends it: a number (in tenths), a string, a
\* boolean, null, or nothing (undefined)
JNumber(v) == [kind |-> "number", num |-> v, text |-> <<>>]

JString(t) == [kind |-> "string", num |-> 0, text |-> t]

JBoolean(b) == [kind |-> "boolean", num |-> IF b THEN 1 ELSE 0, text |-> <<>>]

JNull == [kind |-> "null", num |-> 0, text |-> <<>>]

JUndefined == [kind |-> "undefined", num |-> 0, text |-> <<>>]

DigitChars == <<"0", "1", "2", "3", "4", "5", "6", "7", "8", "9">>

IsDigits(t) ==
  t # <<>> /\ \A k \in 1..Len(t) : \E d \in 1..Len(DigitChars) : DigitChars[d] = t[k]

RECURSIVE DigitsValue(_)
DigitsValue(t) ==
  IF t = <<>> THEN 0
  ELSE 10 * DigitsValue(SubSeq(t, 1, Len(t) - 1))
       + (CHOOSE d \in 0..9 : DigitChars[d + 1] = t[Len(t)])

\* Number(raw), in tenths; None is NaN.  A string is trimmed; the empty
\* string is 0, a string of decimal digits is its value, a string with any
\* other character ("-") is NaN.  null and false are 0, true is 1.
Number(raw) ==
  IF raw.kind = "number" THEN Some(raw.num)
  ELSE IF raw.kind = "string"
    THEN IF Trim(raw.text) = <<>> THEN Some(0)
         ELSE IF IsDigits(Trim(raw.text)) THEN Some(10 * DigitsValue(Trim(raw.text)))
         ELSE None
  ELSE IF raw.kind = "boolean" THEN Some(10 * raw.num)
  ELSE IF raw.kind = "null" THEN Some(0)
  ELSE None

\* a JSON array of values and a JSON object with the fields lat, lng and lon
JArray(items) == [kind |-> "array", items |-> items]

JObject(lat, lng, lon) == [kind |-> "object", lat |-> lat, lng |-> lng, lon |-> lon]

\* value.split(/[, ]+/).filter(Boolean): the parts between runs of commas
\* and spaces, cur being the part under construction
RECURSIVE SplitParts(_, _)
SplitParts(text, cur) ==
  IF text = <<>> THEN (IF cur = <<>> THEN <<>> ELSE <<cur>>)
  ELSE IF Head(text) \in {",", " "}
    THEN (IF cur = <<>> THEN <<>> ELSE <<cur>>) \o SplitParts(Tail(text), <<>>)
  ELSE SplitParts(Tail(text), Append(cur, Head(text)))

\* toNumber(input): Number(input) when finite, else null
toNumber(input) == Number(input)

\* !value
Falsy(raw) ==
  \/ raw.kind \in {"null", "undefined"}
  \/ raw.kind = "string" /\ raw.text = <<>>
  \/ raw.kind = "number" /\ raw.num = 0
  \/ raw.kind = "boolean" /\ raw.num = 0

\* what parseStationCoordinates reads of a JSON value: its components after
\* toNumber
StationGeo(raw) ==
  IF Falsy(raw) THEN [kind |-> "absent", items |-> <<>>]
  ELSE IF raw.kind = "array"
    THEN [kind |-> "array",
          items |-> [k \in 1..Len(raw.items) |-> toNumber(raw.items[k])]]
  ELSE IF raw.kind = "string"
    THEN LET parts == SplitParts(raw.text, <<>>)
         IN [kind |-> "string",
             items |-> [k \in 1..Len(parts) |-> toNumber(JString(parts[k]))]]
  ELSE IF raw.kind = "object"
    THEN [kind |-> "object",
          items |-> <<toNumber(raw.lat),
                      toNumber(IF raw.lng.kind \in {"null", "undefined"}
                                 THEN raw.lon ELSE raw.lng)>>]
  ELSE [kind |-> "other", items |-> <<>>]

\* what deriveAqiValue reads of stationData = [aqi |-> raw, iaqi |-> [key |->
\* raw v]]: Number(stationData?.aqi) if finite, and for each key the v that
\* passes typeof candidate === "number"
StationData(raw) ==
  [status |-> "ok", aqi |-> Number(raw.aqi),
   iaqi |-> [k \in DOMAIN raw.iaqi |->
               IF raw.iaqi[k].kind = "number" THEN Some(raw.iaqi[k].num) ELSE None],
   name |-> <<>>, geo |-> [kind |-> "absent", items |-> <<>>], time |-> None]

\* deriveAqiValue: d.aqi is None when Number(raw) is not finite, d.iaqi[k] is
\* None when iaqi[k].v is absent or not a number
deriveAqiValue(d) ==
  IF IsSome(d.aqi) /\ Val(d.aqi) > 0
    THEN d.aqi
    ELSE LET hits == {i \in 1..Len(FALLBACK_IAQI_KEYS) :
                        IsSome(d.iaqi[FALLBACK_IAQI_KEYS[i]])}
             first == CHOOSE i \in hits : \A j \in hits : i <= j
         IN IF hits = {} THEN None
            ELSE Some(10 * MathRound(Val(d.iaqi[FALLBACK_IAQI_KEYS[first]])))

\* healthAdvice: the advisory tier of a value in tenths
healthAdvice(v) ==
  IF v <= 500 THEN "good"
  ELSE IF v <= 1000 THEN "moderate"
  ELSE IF v <= 1500 THEN "sensitive"
  ELSE IF v <= 2000 THEN "unhealthy"
  ELSE IF v <= 3000 THEN "very-unhealthy"
  ELSE "hazardous"

\* the color healthAdvice returns with the advice (its third item)
colorCode(v) ==
  IF v <= 500 THEN "#2ecc71"
  ELSE IF v <= 1000 THEN "#f1c40f"
  ELSE IF v <= 1500 THEN "#e67e22"
  ELSE IF v <= 2000 THEN "#e74c3c"
  ELSE IF v <= 3000 THEN "#8e44ad"
  ELSE "#34495e"

\* a health status whose tiers end below their bound
healthStatusExclusive(a) ==
  IF ~IsSome(a) THEN "Pending"
  ELSE IF Val(a) < 500 THEN "Healthy"
  ELSE IF Val(a) < 1000 THEN "Moderate"
  ELSE IF Val(a) < 1500 THEN "Caution"
  ELSE IF Val(a) < 2000 THEN "Unhealthy"
  ELSE IF Val(a) < 3000 THEN "Very Unhealthy"
  ELSE "Hazardous"

\* healthStatus: the label of the status card for the aqi state (in tenths)
healthStatus(a) ==
  IF ~IsSome(a) THEN "Pending"
  ELSE IF Val(a) <= 500 THEN "Healthy"
  ELSE IF Val(a) <= 1000 THEN "Moderate"
  ELSE IF Val(a) <= 1500 THEN "Caution"
  ELSE IF Val(a) <= 2000 THEN "Unhealthy"
  ELSE IF Val(a) <= 3000 THEN "Very Unhealthy"
  ELSE "Hazardous"

\* parseStationCoordinates on the station's geo field: absent (falsy), or an
\* array, the parts of a string, or the lat and lng ?? lon of an object, as
\* components each of which toNumber turns into a finite number (Some) or
\* not (None); an array that does not parse has no lat and lng of its own
parseStationCoordinates(value) ==
  IF value.kind = "absent" THEN None
  ELSE IF value.kind \in {"array", "string"} /\ Len(value.items) >= 2
            /\ IsSome(value.items[1]) /\ IsSome(value.items[2])
    THEN Some([lat |-> Val(value.items[1]), lng |-> Val(value.items[2])])
  ELSE IF value.kind = "object" /\ IsSome(value.items[1]) /\ IsSome(value.items[2])
    THEN Some([lat |-> Val(value.items[1]), lng |-> Val(value.items[2])])
  ELSE None

\* labels shown for a reading
TextLabel(t) == [kind |-> "text", text |-> t, lat |-> 0, lng |-> 0]

LatLngLabel(c) ==
  [kind |-> "latlng", text |-> <<>>, lat |-> ToFixed2(c.lat), lng |-> ToFixed2(c.lng)]

\* `${lat.toFixed(4)}, ${lng.toFixed(4)}` of coordinates in 0.0001 degree
CoordinateLabel(c) == [kind |-> "coordinates", text |-> <<>>, lat |-> c.lat, lng |-> c.lng]

\* "Awaiting live location…"
AwaitingLabel == [kind |-> "awaiting", text |-> <<>>, lat |-> 0, lng |-> 0]

\* `Fallback • ${defaultLocation.lat.toFixed(2)}, ${defaultLocation.lng.toFixed(2)}`
FallbackLabel == [kind |-> "fallback", text |-> <<>>, lat |-> 0, lng |-> 0]

\* a signature that keeps the value itself instead of its bucket of 5
SignatureExact(label, v) == [label |-> label, bucket |-> MathRound(v)]

\* `${label}-${Math.round(aqiValue / 5)}` for a value in tenths
Signature(label, v) == [label |-> label, bucket |-> (v + 25) \div 50]

\* toLocaleTimeString([], {hour, minute}) of a time in ms: hour and minute of day
FormatTime(ms) ==
  LET m == (ms \div MS_PER_MINUTE) % 1440 IN [hour |-> m \div 60, minute |-> m % 60]

----------------------------------------------------------------------------
(* The state as one record, so that handlers compose as functions *)

S ==
  [mounted |-> mounted, now |-> now, notificationStatus |-> notificationStatus,
   permPending |-> permPending, alertThreshold |-> alertThreshold, city |-> city,
   location |-> location, locationRef |-> locationRef,
   locationStatus |-> locationStatus, lastLocationRef |-> lastLocationRef,
   geoSupported |-> geoSupported, geoSilent |-> geoSilent, watchOpen |-> watchOpen,
   watches |-> watches, unmounted |-> unmounted,
   oneShots |-> oneShots,
   idleTimer |-> idleTimer, idleFiredAt |-> idleFiredAt,
   locationLabel |-> locationLabel,
   lastResolvedPlacenameRef |-> lastResolvedPlacenameRef,
   isMapLoaded |-> isMapLoaded, geocodes |-> geocodes,
   cityRankings |-> cityRankings, rankingBatch |-> rankingBatch,
   ipFallbackTriggeredRef |-> ipFallbackTriggeredRef,
   ipLookups |-> ipLookups, inflight |-> inflight, aqi |-> aqi,
   lastAlertRef |-> lastAlertRef, alertLog |-> alertLog, history |-> history,
   autoRefreshEnabled |-> autoRefreshEnabled,
   autoRefreshMinutes |-> autoRefreshMinutes, nextAutoRefresh |-> nextAutoRefresh,
   timers |-> timers, effectTimer |-> effectTimer, calls |-> calls,
   shown |-> shown, shownAt |-> shownAt, readings |-> readings,
   started |-> started]

Commit(s) ==
  /\ mounted' = s.mounted
  /\ now' = s.now
  /\ notificationStatus' = s.notificationStatus
  /\ permPending' = s.permPending
  /\ alertThreshold' = s.alertThreshold
  /\ city' = s.city
  /\ location' = s.location
  /\ locationRef' = s.locationRef
  /\ locationStatus' = s.locationStatus
  /\ lastLocationRef' = s.lastLocationRef
  /\ geoSupported' = s.geoSupported
  /\ geoSilent' = s.geoSilent
  /\ watchOpen' = s.watchOpen
  /\ watches' = s.watches
  /\ unmounted' = s.unmounted
  /\ oneShots' = s.oneShots
  /\ idleTimer' = s.idleTimer
  /\ idleFiredAt' = s.idleFiredAt
  /\ locationLabel' = s.locationLabel
  /\ lastResolvedPlacenameRef' = s.lastResolvedPlacenameRef
  /\ isMapLoaded' = s.isMapLoaded
  /\ geocodes' = s.geocodes
  /\ cityRankings' = s.cityRankings
  /\ rankingBatch' = s.rankingBatch
  /\ ipFallbackTriggeredRef' = s.ipFallbackTriggeredRef
  /\ ipLookups' = s.ipLookups
  /\ inflight' = s.inflight
  /\ aqi' = s.aqi
  /\ lastAlertRef' = s.lastAlertRef
  /\ alertLog' = s.alertLog
  /\ history' = s.history
  /\ autoRefreshEnabled' = s.autoRefreshEnabled
  /\ autoRefreshMinutes' = s.autoRefreshMinutes
  /\ nextAutoRefresh' = s.nextAutoRefresh
  /\ timers' = s.timers
  /\ effectTimer' = s.effectTimer
  /\ calls' = s.calls
  /\ shown' = s.shown
  /\ shownAt' = s.shownAt
  /\ readings' = s.readings
  /\ started' = s.started
  /\ UNCHANGED <<arg, result>>

\* the state a step starts from: the per-step observations are empty
Begin == [S EXCEPT !.calls = <<>>, !.shown = <<>>]

Call(s, name) == [s EXCEPT !.calls = Append(@, name)]

\* what a fetchAqi instance closes over (its useCallback dependencies)
Env(s) ==
  [alertThreshold |-> s.alertThreshold, city |-> s.city,
   notificationStatus |-> s.notificationStatus]

RemoveAt(seq, i) == SubSeq(seq, 1, i - 1) \o SubSeq(seq, i + 1, Len(seq))

Take(seq, n) == IF Len(seq) <= n THEN seq ELSE SubSeq(seq, 1, n)

----------------------------------------------------------------------------
(* AlertManager: pushNotification *)

\* when the signature was last displayed, if ever
LastShownAt(s, signature) ==
  LET hits == {k \in 1..Len(s.shownAt) : s.shownAt[k].sig = signature}
  IN IF hits = {} THEN None ELSE Some(s.shownAt[CHOOSE k \in hits : TRUE].at)

\* new Notification(title, {body}) returned: the notification is displayed
Display(s, signature) ==
  [s EXCEPT
     !.shown = Append(@, [sig |-> signature, at |-> s.now,
                          prevAt |-> LastShownAt(s, signature)]),
     !.shownAt = <<[sig |-> signature, at |-> s.now]>>
                   \o SelectSeq(@, LAMBDA r : r.sig # signature)]

\* pushNotification with the cooldown test written >= instead of >
pushNotificationAtLeast(s, env, signature, throws) ==
  IF env.notificationStatus # "granted"
    THEN [st |-> s, notified |-> FALSE]
    ELSE IF /\ ~(s.now - s.lastAlertRef.timestamp >= ALERT_COOLDOWN_MS)
            /\ s.lastAlertRef.signature = Some(signature)
      THEN [st |-> s, notified |-> FALSE]
      ELSE IF throws
        THEN [st |-> s, notified |-> FALSE]
        ELSE [st |-> [Display(s, signature) EXCEPT
                        !.lastAlertRef = [timestamp |-> s.now,
                                          signature |-> Some(signature)]],
              notified |-> TRUE]

\* pushNotification that records the alert before constructing the Notification
pushNotificationEager(s, env, signature, throws) ==
  IF env.notificationStatus # "granted"
    THEN [st |-> s, notified |-> FALSE]
    ELSE IF /\ ~(s.now - s.lastAlertRef.timestamp > ALERT_COOLDOWN_MS)
            /\ s.lastAlertRef.signature = Some(signature)
      THEN [st |-> s, notified |-> FALSE]
      ELSE LET s1 == [s EXCEPT !.lastAlertRef = [timestamp |-> s.now,
                                                 signature |-> Some(signature)]]
           IN IF throws THEN [st |-> s1, notified |-> FALSE]
              ELSE [st |-> Display(s1, signature), notified |-> TRUE]

\* pushNotification without the permission gate
pushNotificationUngated(s, env, signature, throws) ==
  IF /\ ~(s.now - s.lastAlertRef.timestamp > ALERT_COOLDOWN_MS)
     /\ s.lastAlertRef.signature = Some(signature)
    THEN [st |-> s, notified |-> FALSE]
    ELSE IF throws
      THEN [st |-> s, notified |-> FALSE]
      ELSE [st |-> [Display(s, signature) EXCEPT
                      !.lastAlertRef = [timestamp |-> s.now,
                                        signature |-> Some(signature)]],
            notified |-> TRUE]

\* pushNotification(title, body, signature) of the fetchAqi instance whose
\* closure is env; throws: the Notification constructor throws.
\* Result: the state after the call and the value returned.
pushNotification(s, env, signature, throws) ==
  IF env.notificationStatus # "granted"
    THEN [st |-> s, notified |-> FALSE]
    ELSE LET timestamp == s.lastAlertRef.timestamp
             prevSignature == s.lastAlertRef.signature
             cooledDown == s.now - timestamp > ALERT_COOLDOWN_MS
         IN IF ~cooledDown /\ prevSignature = Some(signature)
              THEN [st |-> s, notified |-> FALSE]
              ELSE IF throws
                THEN [st |-> Call(s, "console.warn:Notification error"),
                      notified |-> FALSE]
                ELSE [st |-> [Display(s, signature) EXCEPT
                                !.lastAlertRef = [timestamp |-> s.now,
                                                  signature |-> Some(signature)]],
                      notified |-> TRUE]

----------------------------------------------------------------------------
(* ReadingOrchestrator: fetchAqi *)

\* An in-flight reading cycle.  phase "request": awaiting axios.get;
\* phase "persist": awaiting addDoc, reading holds what the history entry needs.
Request(env, source, shouldUseGeo, geoTarget) ==
  [phase |-> "request", env |-> env, source |-> source,
   shouldUseGeo |-> shouldUseGeo, geoTarget |-> geoTarget, reading |-> None]

\* a fetchAqi that prompts for a target whatever the source of the call
fetchAqiAlwaysPrompts(s, env, source, forceLocation, geoOverride) ==
  LET shouldUseGeo == forceLocation \/ env.city = <<>>
      geoTarget == IF IsSome(geoOverride) THEN geoOverride ELSE s.locationRef
      s1 == Call(s, "fetchAqi")
  IN IF shouldUseGeo /\ ~IsSome(geoTarget)
       THEN Call(s1, "alert:Allow location access or enter a city to fetch AQI.")
       ELSE IF ~shouldUseGeo /\ env.city = <<>>
         THEN Call(s1, "alert:Enter a city name to fetch AQI data.")
         ELSE [Call(s1, IF shouldUseGeo THEN "axios.get:geo" ELSE "axios.get:city")
                 EXCEPT !.started = @ + 1,
                        !.inflight = Append(@, Request(env, source, shouldUseGeo,
                                                       geoTarget))]

\* fetchAqi({source, forceLocation, geoOverride}) of the instance whose closure
\* is env, up to its first await
fetchAqi(s, env, source, forceLocation, geoOverride) ==
  LET shouldUseGeo == forceLocation \/ env.city = <<>>
      geoTarget == IF IsSome(geoOverride) THEN geoOverride ELSE s.locationRef
      s1 == Call(s, "fetchAqi")
  IN IF shouldUseGeo /\ ~IsSome(geoTarget)
       THEN IF source = "manual"
              THEN Call(s1, "alert:Allow location access or enter a city to fetch AQI.")
              ELSE s1
       ELSE IF ~shouldUseGeo /\ env.city = <<>>
         THEN Call(s1, "alert:Enter a city name to fetch AQI data.")
         ELSE [Call(s1, IF shouldUseGeo THEN "axios.get:geo" ELSE "axios.get:city")
                 EXCEPT !.started = @ + 1,
                        !.inflight = Append(@, Request(env, source, shouldUseGeo,
                                                       geoTarget))]

\* the label of a reading (derivedLabel)
DerivedLabel(req, p) ==
  IF ~req.shouldUseGeo /\ Trim(req.env.city) # <<>>
    THEN TextLabel(Trim(req.env.city))
    ELSE IF p.name # <<>> THEN TextLabel(p.name)
    ELSE IF IsSome(req.geoTarget) THEN LatLngLabel(Val(req.geoTarget))
    ELSE TextLabel(<<"Your location">>)

\* the alert block testing the reading against the default threshold instead
\* of the threshold of the cycle's closure
AlertEvaluateFixedThreshold(s, env, label, v, observedAt, throws) ==
  LET eligible == v >= DEFAULT_THRESHOLD * 10
      signature == Signature(label, v)
      r == IF eligible THEN pushNotification(s, env, signature, throws)
           ELSE [st |-> s, notified |-> FALSE]
      entry == [id |-> s.now, label |-> label, aqi |-> v,
                observedAt |-> observedAt, threshold |-> env.alertThreshold]
      logged == IF r.notified
                  THEN [r.st EXCEPT !.alertLog = Take(<<entry>> \o @, ALERT_LOG_CAP)]
                  ELSE r.st
  IN [logged EXCEPT !.readings =
        Append(@, [value |-> v, label |-> label, threshold |-> env.alertThreshold,
                   envStatus |-> env.notificationStatus,
                   status |-> s.notificationStatus, eligible |-> eligible,
                   signature |-> signature, prev |-> s.lastAlertRef,
                   lastShown |-> Take(s.shownAt, 1), at |-> s.now, threw |-> throws,
                   notified |-> r.notified,
                   displayed |-> Len(r.st.shown) > Len(s.shown)])]

\* an alert block that logs every eligible reading, delivered or not
AlertEvaluateLogsEligible(s, env, label, v, observedAt, throws) ==
  LET eligible == v >= env.alertThreshold * 10
      signature == Signature(label, v)
      r == IF eligible THEN pushNotification(s, env, signature, throws)
           ELSE [st |-> s, notified |-> FALSE]
      entry == [id |-> s.now, label |-> label, aqi |-> v,
                observedAt |-> observedAt, threshold |-> env.alertThreshold]
      logged == IF eligible
                  THEN [r.st EXCEPT !.alertLog = Take(<<entry>> \o @, ALERT_LOG_CAP)]
                  ELSE r.st
  IN [logged EXCEPT !.readings =
        Append(@, [value |-> v, label |-> label, threshold |-> env.alertThreshold,
                   envStatus |-> env.notificationStatus,
                   status |-> s.notificationStatus, eligible |-> eligible,
                   signature |-> signature, prev |-> s.lastAlertRef,
                   lastShown |-> Take(s.shownAt, 1), at |-> s.now, threw |-> throws,
                   notified |-> r.notified,
                   displayed |-> Len(r.st.shown) > Len(s.shown)])]

\* an alert block that tests the reading in tenths against the threshold in
\* index units
AlertEvaluateIndexUnits(s, env, label, v, observedAt, throws) ==
  LET eligible == v >= env.alertThreshold
      signature == Signature(label, v)
      r == IF eligible THEN pushNotification(s, env, signature, throws)
           ELSE [st |-> s, notified |-> FALSE]
      entry == [id |-> s.now, label |-> label, aqi |-> v,
                observedAt |-> observedAt, threshold |-> env.alertThreshold]
      logged == IF r.notified
                  THEN [r.st EXCEPT !.alertLog = Take(<<entry>> \o @, ALERT_LOG_CAP)]
                  ELSE r.st
  IN [logged EXCEPT !.readings =
        Append(@, [value |-> v, label |-> label, threshold |-> env.alertThreshold,
                   envStatus |-> env.notificationStatus,
                   status |-> s.notificationStatus, eligible |-> eligible,
                   signature |-> signature, prev |-> s.lastAlertRef,
                   lastShown |-> Take(s.shownAt, 1), at |-> s.now, threw |-> throws,
                   notified |-> r.notified,
                   displayed |-> Len(r.st.shown) > Len(s.shown)])]

\* the alert block of fetchAqi: threshold test, pushNotification, alert log
AlertEvaluate(s, env, label, v, observedAt, throws) ==
  LET eligible == v >= env.alertThreshold * 10
      signature == Signature(label, v)
      r == IF eligible THEN pushNotification(s, env, signature, throws)
           ELSE [st |-> s, notified |-> FALSE]
      entry == [id |-> s.now, label |-> label, aqi |-> v,
                observedAt |-> observedAt, threshold |-> env.alertThreshold]
      logged == IF r.notified
                  THEN [r.st EXCEPT !.alertLog = Take(<<entry>> \o @, ALERT_LOG_CAP)]
                  ELSE r.st
  IN [logged EXCEPT !.readings =
        Append(@, [value |-> v, label |-> label, threshold |-> env.alertThreshold,
                   envStatus |-> env.notificationStatus,
                   status |-> s.notificationStatus, eligible |-> eligible,
                   signature |-> signature, prev |-> s.lastAlertRef,
                   lastShown |-> Take(s.shownAt, 1), at |-> s.now, threw |-> throws,
                   notified |-> r.notified,
                   displayed |-> Len(r.st.shown) > Len(s.shown)])]

\* a fetchAqi that reports a payload without a value as a provider error
fetchAqiRespondedOneMessage(s, i, p, throws) ==
  LET req == s.inflight[i]
      rest == RemoveAt(s.inflight, i)
      aqiValue == deriveAqiValue(p)
  IN IF p.status # "ok"
       THEN [Call(s, "alert:City not found or API error") EXCEPT !.inflight = rest]
       ELSE IF aqiValue = None
         THEN [Call(s, "alert:City not found or API error") EXCEPT !.inflight = rest]
         ELSE
           LET v == Val(aqiValue)
               observedAt == IF IsSome(p.time) THEN Val(p.time) ELSE s.now
               stationCoords == parseStationCoordinates(p.geo)
               label == DerivedLabel(req, p)
               s1 == [s EXCEPT
                        !.aqi = Some(v),
                        !.locationLabel = label,
                        !.location = IF ~req.shouldUseGeo /\ IsSome(stationCoords)
                                       THEN stationCoords ELSE @,
                        !.locationStatus = IF ~req.shouldUseGeo
                                             THEN "City lookup" ELSE @]
               s2 == IF req.source = "manual" THEN Call(s1, "alert:Current AQI") ELSE s1
               s3 == AlertEvaluate(s2, req.env, label, v, observedAt, throws)
           IN [Call(s3, "addDoc") EXCEPT
                 !.inflight[i] = [req EXCEPT
                    !.phase = "persist",
                    !.reading = Some([label |-> label, aqi |-> v,
                                      observedAt |-> observedAt])]]

\* a fetchAqi that issues the persistence write without evaluating the alert
fetchAqiRespondedUnevaluated(s, i, p, throws) ==
  LET req == s.inflight[i]
      rest == RemoveAt(s.inflight, i)
      aqiValue == deriveAqiValue(p)
  IN IF p.status # "ok"
       THEN [Call(s, "alert:City not found or API error") EXCEPT !.inflight = rest]
       ELSE IF aqiValue = None
         THEN [Call(s, "alert:AQI readings are unavailable for this location right now.")
                 EXCEPT !.inflight = rest]
         ELSE
           LET v == Val(aqiValue)
               observedAt == IF IsSome(p.time) THEN Val(p.time) ELSE s.now
               stationCoords == parseStationCoordinates(p.geo)
               label == DerivedLabel(req, p)
               s1 == [s EXCEPT
                        !.aqi = Some(v),
                        !.locationLabel = label,
                        !.location = IF ~req.shouldUseGeo /\ IsSome(stationCoords)
                                       THEN stationCoords ELSE @,
                        !.locationStatus = IF ~req.shouldUseGeo
                                             THEN "City lookup" ELSE @]
               s2 == IF req.source = "manual" THEN Call(s1, "alert:Current AQI") ELSE s1
               s3 == s2
           IN [Call(s3, "addDoc") EXCEPT
                 !.inflight[i] = [req EXCEPT
                    !.phase = "persist",
                    !.reading = Some([label |-> label, aqi |-> v,
                                      observedAt |-> observedAt])]]

\* a fetchAqi that reports a city lookup for every accepted reading
fetchAqiRespondedAnyLookup(s, i, p, throws) ==
  LET req == s.inflight[i]
      rest == RemoveAt(s.inflight, i)
      aqiValue == deriveAqiValue(p)
  IN IF p.status # "ok"
       THEN [Call(s, "alert:City not found or API error") EXCEPT !.inflight = rest]
       ELSE IF aqiValue = None
         THEN [Call(s, "alert:AQI readings are unavailable for this location right now.")
                 EXCEPT !.inflight = rest]
         ELSE
           LET v == Val(aqiValue)
               observedAt == IF IsSome(p.time) THEN Val(p.time) ELSE s.now
               stationCoords == parseStationCoordinates(p.geo)
               label == DerivedLabel(req, p)
               s1 == [s EXCEPT
                        !.aqi = Some(v),
                        !.locationLabel = label,
                        !.location = IF ~req.shouldUseGeo /\ IsSome(stationCoords)
                                       THEN stationCoords ELSE @,
                        !.locationStatus = "City lookup"]
               s2 == IF req.source = "manual" THEN Call(s1, "alert:Current AQI") ELSE s1
               s3 == AlertEvaluate(s2, req.env, label, v, observedAt, throws)
           IN [Call(s3, "addDoc") EXCEPT
                 !.inflight[i] = [req EXCEPT
                    !.phase = "persist",
                    !.reading = Some([label |-> label, aqi |-> v,
                                      observedAt |-> observedAt])]]

\* fetchAqi after axios.get resolved with payload p, up to the await of addDoc
fetchAqiResponded(s, i, p, throws) ==
  LET req == s.inflight[i]
      rest == RemoveAt(s.inflight, i)
      aqiValue == deriveAqiValue(p)
  IN IF p.status # "ok"
       THEN [Call(s, "alert:City not found or API error") EXCEPT !.inflight = rest]
       ELSE IF aqiValue = None
         THEN [Call(s, "alert:AQI readings are unavailable for this location right now.")
                 EXCEPT !.inflight = rest]
         ELSE
           LET v == Val(aqiValue)
               observedAt == IF IsSome(p.time) THEN Val(p.time) ELSE s.now
               stationCoords == parseStationCoordinates(p.geo)
               label == DerivedLabel(req, p)
               s1 == [s EXCEPT
                        !.aqi = Some(v),
                        !.locationLabel = label,
                        !.location = IF ~req.shouldUseGeo /\ IsSome(stationCoords)
                                       THEN stationCoords ELSE @,
                        !.locationStatus = IF ~req.shouldUseGeo
                                             THEN "City lookup" ELSE @]
               s2 == IF req.source = "manual" THEN Call(s1, "alert:Current AQI") ELSE s1
               s3 == AlertEvaluate(s2, req.env, label, v, observedAt, throws)
           IN [Call(s3, "addDoc") EXCEPT
                 !.inflight[i] = [req EXCEPT
                    !.phase = "persist",
                    !.reading = Some([label |-> label, aqi |-> v,
                                      observedAt |-> observedAt])]]

\* axios.get rejected: the catch block of fetchAqi
fetchAqiFailed(s, i) ==
  [Call(s, "alert:Error fetching AQI") EXCEPT !.inflight = RemoveAt(@, i)]

\* a fetchAqi whose failed persistence write reaches the outer catch block
fetchAqiPersistedFatal(s, i, ok) ==
  IF ok
    THEN [s EXCEPT !.history = Take(<<Val(s.inflight[i].reading)>> \o @, HISTORY_CAP),
                   !.inflight = RemoveAt(@, i)]
    ELSE [Call(s, "alert:Error fetching AQI") EXCEPT !.inflight = RemoveAt(@, i)]

\* a fetchAqi that appends to the history without trimming it
fetchAqiPersistedUntrimmed(s, i, ok) ==
  LET req == s.inflight[i]
      s1 == IF ok THEN s ELSE Call(s, "console.warn:Failed to log to Firestore")
  IN [s1 EXCEPT !.history = <<Val(req.reading)>> \o @,
                !.inflight = RemoveAt(@, i)]

\* fetchAqi after addDoc settled (ok or not): the history entry
fetchAqiPersisted(s, i, ok) ==
  LET req == s.inflight[i]
      s1 == IF ok THEN s ELSE Call(s, "console.warn:Failed to log to Firestore")
  IN [s1 EXCEPT !.history = Take(<<Val(req.reading)>> \o @, HISTORY_CAP),
                !.inflight = RemoveAt(@, i)]

----------------------------------------------------------------------------
(* CityRankingAggregator: fetchCityRankings *)

\* what the request of one candidate returns: the entry of a response with
\* status ok, the entry of the catch block otherwise (a rejected request is
\* a response whose status is "rejected")
RankedEntry(cityName, res) ==
  IF res.status = "ok"
    THEN [label |-> IF res.name # <<>> THEN res.name ELSE <<cityName>>,
          city |-> cityName, aqi |-> deriveAqiValue(res)]
    ELSE [label |-> <<cityName>>, city |-> cityName, aqi |-> None]

\* Array.prototype.sort((a, b) => a.aqi - b.aqi): ascending and stable
RECURSIVE InsertByAqi(_, _)
InsertByAqi(e, sorted) ==
  IF sorted = <<>> THEN <<e>>
  ELSE IF Val(sorted[Len(sorted)].aqi) <= Val(e.aqi) THEN Append(sorted, e)
  ELSE Append(InsertByAqi(e, SubSeq(sorted, 1, Len(sorted) - 1)), sorted[Len(sorted)])

RECURSIVE SortByAqi(_)
SortByAqi(seq) ==
  IF seq = <<>> THEN <<>>
  ELSE InsertByAqi(seq[Len(seq)], SortByAqi(SubSeq(seq, 1, Len(seq) - 1)))

\* ranked.filter((entry) => entry.aqi !== null)
RECURSIVE ValidEntries(_)
ValidEntries(ranked) ==
  IF ranked = <<>> THEN <<>>
  ELSE (IF IsSome(Head(ranked).aqi) THEN <<Head(ranked)>> ELSE <<>>)
       \o ValidEntries(Tail(ranked))

\* fetchCityRankings up to its await: one request per candidate
fetchCityRankings(s) ==
  IF Len(CITY_RANKING_CANDIDATES) = 0 THEN s
  ELSE [Call(s, "axios.get:ranking") EXCEPT
          !.cityRankings = [@ EXCEPT !.loading = TRUE, !.error = None],
          !.rankingBatch = [i \in 1..Len(CITY_RANKING_CANDIDATES) |-> None]]

\* the continuation of Promise.all: every request of the batch has settled
rankingSettled(s) ==
  LET ranked == [i \in 1..Len(CITY_RANKING_CANDIDATES) |->
                   RankedEntry(CITY_RANKING_CANDIDATES[i], Val(s.rankingBatch[i]))]
      valid == SortByAqi(ValidEntries(ranked))
  IN [s EXCEPT !.cityRankings =
        [loading |-> FALSE, data |-> valid,
         error |-> IF Len(valid) > 0 THEN None
                   ELSE Some("No AQI data available for tracked cities.")]]

\* a refresh that gives up when one candidate fails
rankingAnsweredAborting(s, i, res) ==
  LET s1 == [s EXCEPT !.rankingBatch[i] = Some(res)]
      s2 == IF res.status = "ok" THEN s1
            ELSE Call(s1, "console.warn:Ranking fetch failed")
      failed == \E k \in 1..Len(s2.rankingBatch) :
                  /\ IsSome(s2.rankingBatch[k])
                  /\ ~IsSome(RankedEntry(CITY_RANKING_CANDIDATES[k],
                                         Val(s2.rankingBatch[k])).aqi)
  IN IF \E k \in 1..Len(s2.rankingBatch) : ~IsSome(s2.rankingBatch[k]) THEN s2
     ELSE IF failed
       THEN [s2 EXCEPT !.cityRankings =
               [loading |-> FALSE, data |-> <<>>,
                error |-> Some("Failed to load city rankings.")]]
       ELSE rankingSettled(s2)

\* the request of candidate i settled with res; the last one to settle
\* resumes fetchCityRankings
rankingAnswered(s, i, res) ==
  LET s1 == [s EXCEPT !.rankingBatch[i] = Some(res)]
      s2 == IF res.status = "ok" THEN s1
            ELSE Call(s1, "console.warn:Ranking fetch failed")
  IN IF \E k \in 1..Len(s2.rankingBatch) : ~IsSome(s2.rankingBatch[k]) THEN s2
     ELSE rankingSettled(s2)

----------------------------------------------------------------------------
(* LocationResolver *)

\* resolveApproximateLocation({force}) of the instance whose fetchAqi has
\* closure env, up to its first await
resolveApproximateLocation(s, env, force) ==
  LET s1 == Call(s, "resolveApproximateLocation")
  IN IF s.ipFallbackTriggeredRef /\ ~force
       THEN s1
       ELSE [Call(s1, "fetch:ipapi") EXCEPT
               !.ipFallbackTriggeredRef = TRUE,
               !.locationStatus = "Resolving network location",
               !.ipLookups = Append(@, [env |-> env, forced |-> force])]

\* the IP lookup answered with finite coordinates (and no place names, so
\* that the label is made of the coordinates)
ipLookupSucceeded(s, i, coords) ==
  LET lk == s.ipLookups[i]
      s1 == [s EXCEPT !.location = Some(coords),
                      !.locationStatus = "Approximate via network",
                      !.locationLabel = LatLngLabel(coords),
                      !.ipLookups = RemoveAt(@, i)]
  IN fetchAqi(s1, lk.env, "auto", TRUE, Some(coords))

\* a failed IP lookup that starts the next one itself
ipLookupFailedRetrying(s, i) ==
  resolveApproximateLocation(
    [Call(s, "console.warn:Approximate location fallback failed") EXCEPT
       !.locationStatus = "Enter a city to start",
       !.locationLabel = FallbackLabel,
       !.ipFallbackTriggeredRef = FALSE,
       !.ipLookups = RemoveAt(@, i)], s.ipLookups[i].env, TRUE)

\* a failed IP lookup that forgets the coordinates
ipLookupFailedClearing(s, i) ==
  [Call(s, "console.warn:Approximate location fallback failed") EXCEPT
     !.location = None,
     !.locationStatus = "Enter a city to start",
     !.locationLabel = FallbackLabel,
     !.ipFallbackTriggeredRef = FALSE,
     !.ipLookups = RemoveAt(@, i)]

\* the IP lookup failed (network error, not ok, or no coordinates)
ipLookupFailed(s, i) ==
  [Call(s, "console.warn:Approximate location fallback failed") EXCEPT
     !.locationStatus = "Enter a city to start",
     !.locationLabel = FallbackLabel,
     !.ipFallbackTriggeredRef = FALSE,
     !.ipLookups = RemoveAt(@, i)]

\* a success callback that reports Live and drops the position
handleGeoSuccessStatusOnly(s, coords) ==
  [Call(s, "handleGeoSuccess") EXCEPT !.locationStatus = "Live"]

handleGeoSuccess(s, coords) ==
  [Call(s, "handleGeoSuccess") EXCEPT
     !.location = Some(coords), !.locationStatus = "Live"]

\* handleGeoError of the render whose fetchAqi has closure env
handleGeoError(s, env, code, secure) ==
  LET message == IF ~secure THEN "Use HTTPS or localhost for live location"
                 ELSE IF code = 1 THEN "Permission denied"
                 ELSE IF code = 2 THEN "Position unavailable"
                 ELSE IF code = 3 THEN "Location timed out"
                 ELSE "Unable to get location"
  IN resolveApproximateLocation(
       [s EXCEPT !.locationStatus = message, !.locationLabel = FallbackLabel], env, TRUE)

\* a manual check that prefers the known coordinates to the typed city
handleFetchClickGeoFirst(s) ==
  IF IsSome(s.location) THEN fetchAqi(s, Env(s), "manual", TRUE, None)
  ELSE IF Trim(s.city) # <<>> THEN fetchAqi(s, Env(s), "manual", FALSE, None)
  ELSE Call(resolveApproximateLocation(s, Env(s), TRUE),
            "alert:Fetching your approximate location.")

handleFetchClick(s) ==
  IF Trim(s.city) # <<>> THEN fetchAqi(s, Env(s), "manual", FALSE, None)
  ELSE IF IsSome(s.location) THEN fetchAqi(s, Env(s), "manual", TRUE, None)
  ELSE Call(resolveApproximateLocation(s, Env(s), TRUE),
            "alert:Fetching your approximate location.")

----------------------------------------------------------------------------
(* AutoRefreshScheduler and the effects of a render.                       *)
(* An effect reads state from the render that created it (r) and refs,     *)
(* the clock and queued updates from the running state (s).                *)

\* a triggerRefresh whose fallback resolution is forced
triggerRefreshForced(r, s) ==
  IF IsSome(s.locationRef) THEN fetchAqi(s, Env(r), "auto", TRUE, None)
  ELSE IF Trim(r.city) # <<>> THEN fetchAqi(s, Env(r), "auto", FALSE, None)
  ELSE resolveApproximateLocation(s, Env(r), TRUE)

\* triggerRefresh of the auto-refresh effect, and the body of the enable effect
triggerRefresh(r, s) ==
  IF IsSome(s.locationRef) THEN fetchAqi(s, Env(r), "auto", TRUE, None)
  ELSE IF Trim(r.city) # <<>> THEN fetchAqi(s, Env(r), "auto", FALSE, None)
  ELSE resolveApproximateLocation(s, Env(r), FALSE)

IntervalMs(minutes) == Max(1, minutes) * MS_PER_MINUTE

\* updateNextRun
updateNextRun(s, intervalMs) ==
  [s EXCEPT !.nextAutoRefresh = Some(FormatTime(s.now + intervalMs))]

\* setInterval returns a handle no live timer has
NewTimerId(s) ==
  CHOOSE i \in 1..(Cardinality(s.timers) + 1) :
    /\ \A t \in s.timers : t.id # i
    /\ \A j \in 1..(i - 1) : \E t \in s.timers : t.id = j

\* an auto-refresh effect that returns no cleanup
AutoRefreshCleanupMissing(s) == s

\* the cleanup the auto-refresh effect returned: clearInterval(timer), or none
AutoRefreshCleanup(s) ==
  IF IsSome(s.effectTimer)
    THEN [s EXCEPT !.timers = {t \in @ : t.id # Val(s.effectTimer)},
                   !.effectTimer = None]
    ELSE s

\* an auto-refresh effect that leaves the next-fire display when disabled
AutoRefreshEffectKeepsNext(r, s) ==
  IF ~r.autoRefreshEnabled
    THEN [s EXCEPT !.effectTimer = None]
    ELSE LET intervalMs == IntervalMs(r.autoRefreshMinutes)
             s1 == updateNextRun(triggerRefresh(r, s), intervalMs)
             id == NewTimerId(s1)
         IN [s1 EXCEPT
               !.timers = @ \cup {[id |-> id, intervalMs |-> intervalMs,
                                   dueAt |-> s.now + intervalMs]},
               !.effectTimer = Some(id)]

\* the auto-refresh effect
AutoRefreshEffect(r, s) ==
  IF ~r.autoRefreshEnabled
    THEN [s EXCEPT !.nextAutoRefresh = None, !.effectTimer = None]
    ELSE LET intervalMs == IntervalMs(r.autoRefreshMinutes)
             s1 == updateNextRun(triggerRefresh(r, s), intervalMs)
             id == NewTimerId(s1)
         IN [s1 EXCEPT
               !.timers = @ \cup {[id |-> id, intervalMs |-> intervalMs,
                                   dueAt |-> s.now + intervalMs]},
               !.effectTimer = Some(id)]

\* the second effect keyed on autoRefreshEnabled
AutoRefreshEnableEffect(r, s) ==
  IF ~r.autoRefreshEnabled THEN s ELSE triggerRefresh(r, s)

\* the interval callback
TimerCallback(r, s, t) ==
  [updateNextRun(triggerRefresh(r, Call(s, "setInterval:callback")), t.intervalMs)
     EXCEPT
     !.timers = (@ \ {t}) \cup {[t EXCEPT !.dueAt = @ + t.intervalMs]}]

\* a Live effect that remembers every fix, also the ones it lets pass silently
LiveEffectLastFix(r, s) ==
  IF r.locationStatus # "Live" \/ ~IsSome(r.location) THEN s
  ELSE LET prev == s.lastLocationRef
           loc == Val(r.location)
           s1 == [s EXCEPT !.lastLocationRef = r.location]
       IN IF /\ IsSome(prev)
             /\ Abs(Val(prev).lat - loc.lat) < MOTION_THRESHOLD
             /\ Abs(Val(prev).lng - loc.lng) < MOTION_THRESHOLD
            THEN s1
            ELSE fetchAqi(s1, Env(r), "auto", TRUE, None)

\* the Live effect: a reading when the fix moved beyond the motion threshold
LiveEffect(r, s) ==
  IF r.locationStatus # "Live" \/ ~IsSome(r.location) THEN s
  ELSE LET prev == s.lastLocationRef
           loc == Val(r.location)
       IN IF /\ IsSome(prev)
             /\ Abs(Val(prev).lat - loc.lat) < MOTION_THRESHOLD
             /\ Abs(Val(prev).lng - loc.lng) < MOTION_THRESHOLD
            THEN s
            ELSE fetchAqi([s EXCEPT !.lastLocationRef = r.location],
                          Env(r), "auto", TRUE, None)

\* a geolocation effect that returns no cleanup
GeolocationCleanupMissing(s) == s

\* the cleanup the last run of the geolocation effect returned:
\* clearWatch(watchId); none before the first run and none when the
\* capability is absent, as no watch was opened then
GeolocationCleanup(s) ==
  IF s.watches > 0
    THEN [Call(s, "clearWatch") EXCEPT !.watches = @ - 1, !.watchOpen = FALSE]
    ELSE s

\* the geolocation effect: open the watch (its cleanup closed the previous
\* one), or fall back when the capability is absent
GeolocationEffect(r, s) ==
  IF ~s.geoSupported
    THEN resolveApproximateLocation(
           [s EXCEPT !.locationStatus = "Geolocation not supported",
                     !.locationLabel = FallbackLabel], Env(r), TRUE)
    ELSE [Call(s, "watchPosition") EXCEPT
            !.locationStatus = "Locating", !.watchOpen = TRUE, !.watches = @ + 1]

\* the one-shot effect: a getCurrentPosition read with this render's handlers
\* (a read that will never call back is not kept)
OneShotEffect(r, s) ==
  IF ~s.geoSupported \/ s.geoSilent THEN s
  ELSE [s EXCEPT !.oneShots = @ \cup {Env(r)}]

\* the cleanup of the idle-timeout effect: clearTimeout(timer)
IdleTimeoutCleanup(s) == [s EXCEPT !.idleTimer = None]

\* the idle-timeout effect: arm the timeout unless a location is known
IdleTimeoutEffect(r, s) ==
  IF IsSome(r.location) THEN s
  ELSE [s EXCEPT !.idleTimer = Some([dueAt |-> s.now + IDLE_TIMEOUT_MS,
                                     env |-> Env(r)])]

\* the callback of the idle timeout
IdleTimeoutCallback(s) ==
  LET t == Val(s.idleTimer)
      s1 == [Call(s, "setTimeout:callback") EXCEPT
               !.idleTimer = None,
               !.idleFiredAt = IF IsSome(@) THEN @ ELSE Some(s.now)]
  IN resolveApproximateLocation(s1, t.env, FALSE)

\* a reverse-geocode effect that returns no cleanup
GeocodeCleanupMissing(s) == s

\* the cleanup of the reverse-geocode effect: the callbacks of the earlier
\* runs find cancelled set
GeocodeCleanup(s) ==
  [s EXCEPT !.geocodes = [k \in 1..Len(@) |-> [@[k] EXCEPT !.cancelled = TRUE]]]

\* the label is known for coordinates c: the last resolved coordinates are
\* within the reuse threshold of c on both axes
Reusable(previous, c) ==
  /\ IsSome(previous)
  /\ Abs(Val(previous).lat - c.lat) < GEOCODE_REUSE_THRESHOLD
  /\ Abs(Val(previous).lng - c.lng) < GEOCODE_REUSE_THRESHOLD

\* the label kept for coordinates c when no place name was obtained
FallbackPlacename(c) == [lat |-> c.lat, lng |-> c.lng, label |-> CoordinateLabel(c)]

\* a reverse-geocode effect that asks the geocoder whatever was resolved before
GeocodeEffectUncached(r, s) ==
  IF ~IsSome(r.location)
    THEN [s EXCEPT !.lastResolvedPlacenameRef = None, !.locationLabel = AwaitingLabel]
  ELSE LET c == Val(r.location)
       IN IF ~r.isMapLoaded
            THEN [Call(s, "console.warn:Google Maps API not loaded") EXCEPT
                    !.lastResolvedPlacenameRef = Some(FallbackPlacename(c)),
                    !.locationLabel = CoordinateLabel(c)]
            ELSE [Call(s, "geocoder.geocode") EXCEPT
                    !.geocodes = Append(@, [lat |-> c.lat, lng |-> c.lng,
                                            cancelled |-> FALSE])]

\* the reverse-geocode effect of render r, fetchPlacename up to the
\* geocoder's callback
GeocodeEffect(r, s) ==
  IF ~IsSome(r.location)
    THEN [s EXCEPT !.lastResolvedPlacenameRef = None, !.locationLabel = AwaitingLabel]
  ELSE LET c == Val(r.location)
           previous == s.lastResolvedPlacenameRef
       IN IF Reusable(previous, c)
            THEN [s EXCEPT !.locationLabel = Val(previous).label]
          ELSE IF ~r.isMapLoaded
            THEN [Call(s, "console.warn:Google Maps API not loaded") EXCEPT
                    !.lastResolvedPlacenameRef = Some(FallbackPlacename(c)),
                    !.locationLabel = CoordinateLabel(c)]
            ELSE [Call(s, "geocoder.geocode") EXCEPT
                    !.geocodes = Append(@, [lat |-> c.lat, lng |-> c.lng,
                                            cancelled |-> FALSE])]

\* a geocoder callback that shows the coordinates after a failure and keeps
\* nothing for them
geocodeCallbackForgetful(s, i, answer) ==
  LET g == s.geocodes[i]
      c == [lat |-> g.lat, lng |-> g.lng]
      s1 == [s EXCEPT !.geocodes = RemoveAt(@, i)]
  IN IF answer.status = "OK" /\ answer.hasResult
       THEN LET namedLocation == IF answer.address # <<>> THEN TextLabel(answer.address)
                                 ELSE CoordinateLabel(c)
            IN IF g.cancelled THEN s1
               ELSE [s1 EXCEPT
                       !.lastResolvedPlacenameRef =
                          Some([lat |-> c.lat, lng |-> c.lng, label |-> namedLocation]),
                       !.locationLabel = namedLocation]
       ELSE LET s2 == Call(s1, "console.warn:Reverse geocode failed")
            IN IF g.cancelled THEN s2
               ELSE [s2 EXCEPT !.locationLabel = CoordinateLabel(c)]

\* the callback of geocoder.geocode for request i; answer is the status, whether
\* results[0] exists and its formatted_address
geocodeCallback(s, i, answer) ==
  LET g == s.geocodes[i]
      c == [lat |-> g.lat, lng |-> g.lng]
      s1 == [s EXCEPT !.geocodes = RemoveAt(@, i)]
  IN IF answer.status = "OK" /\ answer.hasResult
       THEN LET namedLocation == IF answer.address # <<>> THEN TextLabel(answer.address)
                                 ELSE CoordinateLabel(c)
            IN IF g.cancelled THEN s1
               ELSE [s1 EXCEPT
                       !.lastResolvedPlacenameRef =
                          Some([lat |-> c.lat, lng |-> c.lng, label |-> namedLocation]),
                       !.locationLabel = namedLocation]
       ELSE LET s2 == Call(s1, "console.warn:Reverse geocode failed")
            IN IF g.cancelled THEN s2
               ELSE [s2 EXCEPT
                       !.lastResolvedPlacenameRef = Some(FallbackPlacename(c)),
                       !.locationLabel = CoordinateLabel(c)]

\* requestNotificationPermission, up to its await: answer is "unsupported",
\* "granted" (Notification.permission already granted) or "ask"
requestNotificationPermission(s, answer) ==
  IF answer = "unsupported" THEN [s EXCEPT !.notificationStatus = "unsupported"]
  ELSE IF answer = "granted" THEN [s EXCEPT !.notificationStatus = "granted"]
  ELSE [s EXCEPT !.permPending = TRUE]

\* what the effects depend on
Deps(x) ==
  [env |-> Env(x), location |-> x.location, locationStatus |-> x.locationStatus,
   autoRefreshEnabled |-> x.autoRefreshEnabled,
   autoRefreshMinutes |-> x.autoRefreshMinutes, isMapLoaded |-> x.isMapLoaded]

\* One commit: o is the previous render, r the render being committed.
\* Effects run in source order when a dependency changed; fetchAqi,
\* resolveApproximateLocation and handleGeoError are new instances when Env
\* changed (first: every effect runs).
EffectsPass(o, r, first, answer) ==
  LET fetchChanged == first \/ Env(o) # Env(r)
      s0 == IF first THEN fetchCityRankings(r) ELSE r
      s1 == [s0 EXCEPT !.locationRef = r.location]
      s2 == IF first THEN requestNotificationPermission(s1, answer) ELSE s1
      s3 == IF fetchChanged THEN GeolocationEffect(r, GeolocationCleanup(s2)) ELSE s2
      s3a == IF fetchChanged THEN OneShotEffect(r, s3) ELSE s3
      s3b == IF fetchChanged \/ o.location # r.location
               THEN IdleTimeoutEffect(r, IdleTimeoutCleanup(s3a)) ELSE s3a
      s4 == IF \/ fetchChanged
               \/ o.location # r.location
               \/ o.locationStatus # r.locationStatus
              THEN LiveEffect(r, s3b) ELSE s3b
      s4a == IF first \/ o.location # r.location \/ o.isMapLoaded # r.isMapLoaded
               THEN GeocodeEffect(r, GeocodeCleanup(s4)) ELSE s4
      s5 == IF \/ fetchChanged
               \/ o.autoRefreshEnabled # r.autoRefreshEnabled
               \/ o.autoRefreshMinutes # r.autoRefreshMinutes
              THEN AutoRefreshEffect(r, AutoRefreshCleanup(s4a)) ELSE s4a
      s6 == IF fetchChanged \/ o.autoRefreshEnabled # r.autoRefreshEnabled
              THEN AutoRefreshEnableEffect(r, s5) ELSE s5
  IN s6

\* the component is torn down: the cleanup of every effect that returned one
Teardown(s) ==
  [GeocodeCleanup(AutoRefreshCleanup(IdleTimeoutCleanup(GeolocationCleanup(s))))
     EXCEPT !.mounted = FALSE, !.unmounted = TRUE]

\* render and commit until no effect queues a state change (s is the state
\* after the effects of one commit); a component that was torn down renders
\* nothing and runs no effect
RECURSIVE Render(_, _)
Render(o, r) ==
  IF r.unmounted THEN r
  ELSE CHOOSE done \in {IF Deps(s) = Deps(r) THEN s ELSE Render(r, s) :
                          s \in {EffectsPass(o, r, FALSE, "ask")}} : TRUE

\* the first render and its effects, then the renders they cause
MountRender(r, answer) == Render(r, EffectsPass(r, r, TRUE, answer))

----------------------------------------------------------------------------
(* Inputs: what the environment can answer *)

NoIaqi == [k \in {FALLBACK_IAQI_KEYS[i] : i \in 1..Len(FALLBACK_IAQI_KEYS)} |-> None]

NoGeo == [kind |-> "absent", items |-> <<>>]

\* a provider response with status ok and a primary index (in tenths)
Payload(v) ==
  [status |-> "ok", aqi |-> Some(v), iaqi |-> NoIaqi, name |-> <<"S">>,
   geo |-> NoGeo, time |-> None]

\* primary index "-" and a pm10 sub-indicator of 154.6
PayloadFallback ==
  [Payload(0) EXCEPT !.aqi = None, !.iaqi = [NoIaqi EXCEPT !["pm10"] = Some(1546)]]

\* neither a primary index nor a sub-indicator
PayloadNoValue == [Payload(0) EXCEPT !.aqi = None]

\* a status other than ok
PayloadNotOk == [Payload(0) EXCEPT !.status = "error"]

\* a station with parseable coordinates and no name
PayloadStation ==
  [Payload(1600) EXCEPT !.name = <<>>,
                        !.geo = [kind |-> "array", items |-> <<Some(120), Some(340)>>]]

Payloads ==
  {Payload(1200), Payload(1600), Payload(1620), Payload(3000),
   PayloadFallback, PayloadNoValue, PayloadNotOk, PayloadStation}

CityTexts == {<<>>, <<" ">>, <<"D", " ">>}

Thresholds == {DEFAULT_THRESHOLD, 200}

\* what the threshold slider can be set to: 50 to 400 in steps of 10
SliderThresholds == {th \in 50..400 : th % 10 = 0}

GpsFixes == {[lat |-> 100, lng |-> 100], [lat |-> 103, lng |-> 100],
             [lat |-> 100, lng |-> 110]}

IpCoords == {[lat |-> 200, lng |-> 300]}

PermissionAnswers == {"granted", "denied", "default"}

MountAnswers == {"unsupported", "granted", "ask"}

GeoErrorCodes == {1, 2, 3}

\* a request that was rejected (network error, HTTP error): no response body
Rejected == [Payload(0) EXCEPT !.status = "rejected", !.aqi = None, !.name = <<>>]

\* what the provider can answer for each ranking candidate
RankingAnswers ==
  [i \in 1..Len(CITY_RANKING_CANDIDATES) |-> Payloads \cup {Rejected}]

\* what the geocoder can answer: a result with an address, a result without
\* one, no result, a failure status
GeocodeAnswers ==
  { [status |-> "OK", hasResult |-> TRUE, address |-> <<"P">>],
    [status |-> "OK", hasResult |-> TRUE, address |-> <<>>],
    [status |-> "OK", hasResult |-> FALSE, address |-> <<>>],
    [status |-> "ERROR", hasResult |-> FALSE, address |-> <<>>] }

----------------------------------------------------------------------------
(* The state machine *)

\* the App before its first render
InitApp ==
  /\ mounted = FALSE
  /\ now = MountTime
  /\ notificationStatus = "off"
  /\ permPending = FALSE
  /\ alertThreshold = DEFAULT_THRESHOLD
  /\ city = <<>>
  /\ location = None
  /\ locationRef = None
  /\ locationStatus = "Idle"
  /\ lastLocationRef = None
  /\ geoSupported \in BOOLEAN
  /\ geoSilent \in BOOLEAN
  /\ watchOpen = FALSE
  /\ watches = 0
  /\ unmounted = FALSE
  /\ oneShots = {}
  /\ idleTimer = None
  /\ idleFiredAt = None
  /\ locationLabel = AwaitingLabel
  /\ lastResolvedPlacenameRef = None
  /\ isMapLoaded = FALSE
  /\ geocodes = <<>>
  /\ cityRankings = [loading |-> FALSE, data |-> <<>>, error |-> None]
  /\ rankingBatch = <<>>
  /\ ipFallbackTriggeredRef = FALSE
  /\ ipLookups = <<>>
  /\ inflight = <<>>
  /\ aqi = None
  /\ lastAlertRef = [timestamp |-> 0, signature |-> None]
  /\ alertLog = <<>>
  /\ history = <<>>
  /\ autoRefreshEnabled = FALSE
  /\ autoRefreshMinutes = DEFAULT_REFRESH_MINUTES
  /\ nextAutoRefresh = None
  /\ timers = {}
  /\ effectTimer = None
  /\ calls = <<>>
  /\ shown = <<>>
  /\ shownAt = <<>>
  /\ readings = <<>>
  /\ started = 0

Init == InitApp /\ arg = None /\ result = None

\* the step commits state c, the value of s
Do(s) == \E c \in {s} : Commit(c)

\* an event handler ran on the current render, then the renders it caused
Handle(s) == Do(Render(Begin, s))

Mount(answers) ==
  /\ ~mounted /\ ~unmounted
  /\ \E answer \in answers :
       Do(MountRender([Begin EXCEPT !.mounted = TRUE], answer))

\* the page is closed or the component removed
Unmount ==
  /\ mounted
  /\ Do(Teardown(Begin))

\* Notification.requestPermission() resolved
PermissionAnswered(perms) ==
  /\ mounted /\ permPending
  /\ \E perm \in perms :
       Handle([Begin EXCEPT !.notificationStatus = perm, !.permPending = FALSE])

SetCity(texts) ==
  /\ mounted
  /\ \E text \in texts \ {city} : Handle([Begin EXCEPT !.city = text])

SetAlertThreshold(thresholds) ==
  /\ mounted
  /\ \E th \in thresholds \ {alertThreshold} :
       Handle([Begin EXCEPT !.alertThreshold = th])

ToggleAutoRefresh ==
  /\ mounted
  /\ Handle([Begin EXCEPT !.autoRefreshEnabled = ~@])

SetAutoRefreshMinutes(options) ==
  /\ mounted
  /\ \E m \in options \ {autoRefreshMinutes} :
       Handle([Begin EXCEPT !.autoRefreshMinutes = m])

HandleFetchClick ==
  /\ mounted
  /\ Handle(handleFetchClick(Begin))

GpsSuccess(fixes) ==
  /\ mounted /\ watchOpen /\ ~geoSilent
  /\ \E c \in fixes : Handle(handleGeoSuccess(Begin, c))

\* the watch reported an error; a watch that was refused the permission
\* (code 1) reports nothing further
GpsError(codes) ==
  /\ mounted /\ watchOpen /\ ~geoSilent
  /\ \E code \in codes, secure \in BOOLEAN :
       Handle(handleGeoError([Begin EXCEPT !.watchOpen = (code # 1)],
                             Env(Begin), code, secure))

\* a pending getCurrentPosition read delivered a position
OneShotSuccess(fixes) ==
  \E e \in oneShots, c \in fixes :
    Handle(handleGeoSuccess([Begin EXCEPT !.oneShots = @ \ {e}], c))

\* a pending getCurrentPosition read reported an error
OneShotError(codes) ==
  \E e \in oneShots, code \in codes, secure \in BOOLEAN :
    Handle(handleGeoError([Begin EXCEPT !.oneShots = @ \ {e}], e, code, secure))

\* the idle timeout is due
IdleTimeoutFire ==
  /\ IsSome(idleTimer)
  /\ Val(idleTimer).dueAt <= now
  /\ Handle(IdleTimeoutCallback(Begin))

IpLookupSucceeded(coords) ==
  \E i \in 1..Len(ipLookups), c \in coords : Handle(ipLookupSucceeded(Begin, i, c))

IpLookupFailed ==
  \E i \in 1..Len(ipLookups) : Handle(ipLookupFailed(Begin, i))

\* useJsApiLoader reported the maps script loaded
MapLoaded ==
  /\ mounted /\ ~isMapLoaded
  /\ Handle([Begin EXCEPT !.isMapLoaded = TRUE])

\* the Refresh button of the ranking card, disabled while a refresh is loading
RefreshRankings ==
  /\ mounted /\ ~cityRankings.loading
  /\ Handle(fetchCityRankings(Begin))

\* the ranking request of one candidate settled; answers[i] is what the
\* provider can answer for candidate i
RankingAnswered(answers) ==
  \E i \in 1..Len(rankingBatch) :
    /\ ~IsSome(rankingBatch[i])
    /\ \E res \in answers[i] : Handle(rankingAnswered(Begin, i, res))

\* the geocoder called back
GeocodeAnswered(answers) ==
  \E i \in 1..Len(geocodes), a \in answers : Handle(geocodeCallback(Begin, i, a))

\* axios.get resolved; throwing: whether the Notification constructor may throw
AqiResponse(payloads, throwing) ==
  \E i \in 1..Len(inflight), p \in payloads, throws \in throwing :
    /\ inflight[i].phase = "request"
    /\ Handle(fetchAqiResponded(Begin, i, p, throws))

AqiRequestFailed ==
  \E i \in 1..Len(inflight) :
    /\ inflight[i].phase = "request"
    /\ Handle(fetchAqiFailed(Begin, i))

PersistDone ==
  \E i \in 1..Len(inflight), ok \in BOOLEAN :
    /\ inflight[i].phase = "persist"
    /\ Handle(fetchAqiPersisted(Begin, i, ok))

\* fetchAqi of the current render called with the given source and force
\* flag, without a coordinate override
FetchAqiCalled(sources, forces) ==
  /\ mounted
  /\ \E source \in sources, force \in forces :
       Handle(fetchAqi(Call(Begin, IF source = "manual" THEN "source:manual"
                                   ELSE "source:auto"),
                       Env(Begin), source, force, None))

\* a live interval timer is due
TimerFire ==
  \E t \in timers :
    /\ t.dueAt <= now
    /\ Handle(TimerCallback(Begin, Begin, t))

\* the clock advances by a long step; a due interval timer fires before the
\* clock passes it, and an armed idle timeout runs its callback on the way
Tick ==
  /\ \A t \in timers : now + TickMs <= t.dueAt
  /\ IF IsSome(idleTimer)
       THEN Do([Render(Begin,
                       IdleTimeoutCallback(
                         [Begin EXCEPT !.now = Max(@, Val(idleTimer).dueAt)]))
                  EXCEPT !.now = now + TickMs])
       ELSE Do([Begin EXCEPT !.now = @ + TickMs])

\* the clock advances by a short step; a due timer fires before the clock
\* passes it
TickIdle ==
  /\ \A t \in timers : now + IdleTickMs <= t.dueAt
  /\ IsSome(idleTimer) => now + IdleTickMs <= Val(idleTimer).dueAt
  /\ Do([Begin EXCEPT !.now = @ + IdleTickMs])

Next ==
  \/ Mount(MountAnswers)
  \/ Unmount
  \/ PermissionAnswered(PermissionAnswers)
  \/ SetCity(CityTexts)
  \/ SetAlertThreshold(Thresholds)
  \/ ToggleAutoRefresh
  \/ SetAutoRefreshMinutes(CADENCE_OPTIONS)
  \/ HandleFetchClick
  \/ GpsSuccess(GpsFixes)
  \/ GpsError(GeoErrorCodes)
  \/ OneShotSuccess(GpsFixes)
  \/ OneShotError(GeoErrorCodes)
  \/ IdleTimeoutFire
  \/ IpLookupSucceeded(IpCoords)
  \/ IpLookupFailed
  \/ MapLoaded
  \/ GeocodeAnswered(GeocodeAnswers)
  \/ RefreshRankings
  \/ RankingAnswered(RankingAnswers)
  \/ AqiResponse(Payloads, BOOLEAN)
  \/ AqiRequestFailed
  \/ PersistDone
  \/ TimerFire
  \/ Tick
  \/ TickIdle

\* the whole system, every input, without a bound on the run
Spec == Init /\ [][Next]_vars

----------------------------------------------------------------------------
(* Bounded parts of the system.  Each specification below keeps the        *)
(* actions and inputs its properties are about and bounds the run.         *)

\* the bounds of a run: provider requests issued, cycles and lookups in
\* flight at once, clock ticks
Bounded(maxStarted, maxInFlight, maxTicks) ==
  /\ started' <= maxStarted
  /\ Len(inflight') <= maxInFlight
  /\ Len(ipLookups') <= maxInFlight
  /\ now' <= MountTime + maxTicks * TickMs

----------------------------------------------------------------------------
(* The cooldown rule: permission granted when the page loads, the default  *)
(* threshold, manual checks of a typed city, readings in two buckets, a    *)
(* channel that may throw, the clock.                                      *)

CooldownMaxStarted == 2

CooldownMaxInFlight == 1

CooldownMaxTicks == 3

CooldownPayloads == {Payload(1600), Payload(3000)}

CooldownBounds == Bounded(CooldownMaxStarted, CooldownMaxInFlight, CooldownMaxTicks)

NextCooldown ==
  \/ Mount({"granted"}) /\ CooldownBounds
  \/ SetCity({<<"D", " ">>}) /\ CooldownBounds
  \/ city # <<>> /\ HandleFetchClick /\ CooldownBounds
  \/ AqiResponse(CooldownPayloads, BOOLEAN) /\ CooldownBounds
  \/ PersistDone /\ CooldownBounds
  \/ Tick /\ CooldownBounds

\* the browser has the geolocation capability and the user leaves its
\* location prompt unanswered
InitCooldown == Init /\ geoSupported /\ geoSilent

SpecCooldown == InitCooldown /\ [][NextCooldown]_vars

----------------------------------------------------------------------------
(* The four-reading scenario: permission granted when the page loads, the  *)
(* default threshold, one typed city, a channel that does not throw; each  *)
(* check is started after the previous one was answered.                   *)

ScenarioMaxStarted == 4

ScenarioMaxTicks == 1

ScenarioPayloads == {Payload(1200), Payload(1600), Payload(1620), Payload(3000)}

ScenarioBounds == Bounded(ScenarioMaxStarted, ScenarioMaxStarted, ScenarioMaxTicks)

NextScenario ==
  \/ Mount({"granted"}) /\ ScenarioBounds
  \/ SetCity({<<"D", " ">>}) /\ ScenarioBounds
  \/ city # <<>> /\ inflight = <<>> /\ HandleFetchClick /\ ScenarioBounds
  \/ AqiResponse(ScenarioPayloads, {FALSE}) /\ ScenarioBounds
  \/ PersistDone /\ ScenarioBounds
  \/ Tick /\ ScenarioBounds

SpecScenario == InitCooldown /\ [][NextScenario]_vars

----------------------------------------------------------------------------
(* The alert gate: every permission outcome, threshold changes, a reading  *)
(* in flight while the permission is answered, a throwing channel.         *)

GateMaxStarted == 1

GateMaxInFlight == 1

GatePayloads == {Payload(1200), Payload(1600)}

GateBounds == Bounded(GateMaxStarted, GateMaxInFlight, 0)

NextGate ==
  \/ Mount(MountAnswers) /\ GateBounds
  \/ PermissionAnswered(PermissionAnswers) /\ GateBounds
  \/ SetCity({<<"D", " ">>}) /\ GateBounds
  \/ SetAlertThreshold(Thresholds) /\ GateBounds
  \/ HandleFetchClick /\ GateBounds
  \/ AqiResponse(GatePayloads, BOOLEAN) /\ GateBounds
  \/ AqiRequestFailed /\ GateBounds
  \/ PersistDone /\ GateBounds

SpecGate == InitCooldown /\ [][NextGate]_vars

----------------------------------------------------------------------------
(* The scheduler: enable, disable, cadence changes, city edits, threshold  *)
(* changes, the idle timeout and the IP fallback (which supplies the       *)
(* coordinates), timer fires, the clock; the provider answers every        *)
(* request with an error.                                                  *)

RefreshMaxStarted == 3

RefreshMaxInFlight == 2

RefreshMaxTicks == 2

RefreshBounds == Bounded(RefreshMaxStarted, RefreshMaxInFlight, RefreshMaxTicks)

NextRefresh ==
  \/ Mount({"granted"}) /\ RefreshBounds
  \/ ToggleAutoRefresh /\ RefreshBounds
  \/ SetAutoRefreshMinutes({5, DEFAULT_REFRESH_MINUTES}) /\ RefreshBounds
  \/ SetCity({<<>>, <<"D", " ">>}) /\ RefreshBounds
  \/ SetAlertThreshold(Thresholds) /\ RefreshBounds
  \/ IpLookupSucceeded(IpCoords) /\ RefreshBounds
  \/ IpLookupFailed /\ RefreshBounds
  \/ AqiResponse({PayloadNotOk}, {FALSE}) /\ RefreshBounds
  \/ AqiRequestFailed /\ RefreshBounds
  \/ TimerFire /\ RefreshBounds
  \/ Tick /\ RefreshBounds

SpecRefresh == InitCooldown /\ [][NextRefresh]_vars

----------------------------------------------------------------------------
(* The target of a cycle: enable, a cadence change, city edits (empty,      *)
(* blank, a name), the idle timeout and the IP fallback (which supplies the *)
(* coordinates), timer fires, the clock; the provider answers every request *)
(* with an error.                                                           *)

TargetMaxStarted == 4

TargetMaxInFlight == 2

TargetMaxTicks == 2

TargetBounds == Bounded(TargetMaxStarted, TargetMaxInFlight, TargetMaxTicks)

NextTarget ==
  \/ Mount({"granted"}) /\ TargetBounds
  \/ ToggleAutoRefresh /\ TargetBounds
  \/ SetAutoRefreshMinutes({5}) /\ TargetBounds
  \/ SetCity(CityTexts) /\ TargetBounds
  \/ IpLookupSucceeded(IpCoords) /\ TargetBounds
  \/ IpLookupFailed /\ TargetBounds
  \/ AqiResponse({PayloadNotOk}, {FALSE}) /\ TargetBounds
  \/ TimerFire /\ TargetBounds
  \/ Tick /\ TargetBounds

SpecTarget == InitCooldown /\ [][NextTarget]_vars

----------------------------------------------------------------------------
(* The IP fallback: manual checks without a city or a location (forced),   *)
(* enabling auto-refresh and the idle timeout (not forced), lookups that    *)
(* succeed or fail in any order; the provider answers every request with    *)
(* an error.                                                                *)

FallbackMaxStarted == 1

FallbackMaxInFlight == 2

FallbackMaxTicks == 1

FallbackBounds == Bounded(FallbackMaxStarted, FallbackMaxInFlight, FallbackMaxTicks)

NextFallback ==
  \/ Mount({"granted"}) /\ FallbackBounds
  \/ HandleFetchClick /\ FallbackBounds
  \/ ToggleAutoRefresh /\ FallbackBounds
  \/ IpLookupSucceeded(IpCoords) /\ FallbackBounds
  \/ IpLookupFailed /\ FallbackBounds
  \/ AqiResponse({PayloadNotOk}, {FALSE}) /\ FallbackBounds
  \/ Tick /\ FallbackBounds

SpecFallback == InitCooldown /\ [][NextFallback]_vars

----------------------------------------------------------------------------
(* Location access refused: the browser answers the watch and the one-shot *)
(* read of the first render with the permission-denied code; the IP lookups *)
(* succeed or fail; the provider answers every request with an error.       *)

DeniedMaxStarted == 2

DeniedMaxInFlight == 2

DeniedMaxTicks == 1

DeniedBounds == Bounded(DeniedMaxStarted, DeniedMaxInFlight, DeniedMaxTicks)

NextDenied ==
  \/ Mount({"granted"}) /\ DeniedBounds
  \/ GpsError({1}) /\ DeniedBounds
  \/ OneShotError({1}) /\ DeniedBounds
  \/ IpLookupSucceeded(IpCoords) /\ DeniedBounds
  \/ IpLookupFailed /\ DeniedBounds
  \/ AqiResponse({PayloadNotOk}, {FALSE}) /\ DeniedBounds
  \/ Tick /\ DeniedBounds

\* the browser has the geolocation capability and answers position requests
InitGps == Init /\ geoSupported /\ ~geoSilent

SpecDenied == InitGps /\ [][NextDenied]_vars

----------------------------------------------------------------------------
(* The location state: positions from the watch and the one-shot reads,    *)
(* a timeout of the watch, the IP fallback, a city edit (which              *)
(* re-runs the geolocation effect), manual checks answered by a station     *)
(* with or without coordinates.                                             *)

LocationMaxStarted == 1

LocationMaxInFlight == 1

LocationFixes == {[lat |-> 100, lng |-> 100]}

LocationPayloads == {Payload(1200), PayloadStation}

LocationBounds == Bounded(LocationMaxStarted, LocationMaxInFlight, 0)

NextLocation ==
  \/ Mount({"granted"}) /\ LocationBounds
  \/ SetCity({<<"D", " ">>}) /\ LocationBounds
  \/ HandleFetchClick /\ LocationBounds
  \/ GpsSuccess(LocationFixes) /\ LocationBounds
  \/ GpsError({3}) /\ LocationBounds
  \/ OneShotSuccess(LocationFixes) /\ LocationBounds
  \/ IpLookupSucceeded(IpCoords) /\ LocationBounds
  \/ IpLookupFailed /\ LocationBounds
  \/ AqiResponse(LocationPayloads, {FALSE}) /\ LocationBounds
  \/ PersistDone /\ LocationBounds

SpecLocation == InitGps /\ [][NextLocation]_vars

----------------------------------------------------------------------------
(* The idle timeout: the clock in steps of half the delay, city edits and   *)
(* threshold changes while the timeout is armed, the IP lookup it starts;   *)
(* the location prompt stays unanswered.                                    *)

IdleMaxStarted == 1

IdleMaxInFlight == 1

IdleMaxTicks == 4

IdleBounds ==
  /\ started' <= IdleMaxStarted
  /\ Len(inflight') <= IdleMaxInFlight
  /\ Len(ipLookups') <= IdleMaxInFlight
  /\ now' <= MountTime + IdleMaxTicks * IdleTickMs

NextIdle ==
  \/ Mount({"granted"}) /\ IdleBounds
  \/ SetCity(CityTexts) /\ IdleBounds
  \/ SetAlertThreshold(Thresholds) /\ IdleBounds
  \/ IdleTimeoutFire /\ IdleBounds
  \/ IpLookupSucceeded(IpCoords) /\ IdleBounds
  \/ IpLookupFailed /\ IdleBounds
  \/ mounted /\ TickIdle /\ IdleBounds

SpecIdle == InitCooldown /\ [][NextIdle]_vars

----------------------------------------------------------------------------
(* The motion filter: positions from the watch and the one-shot reads that  *)
(* drift along one axis in steps below the threshold, or jump on the other  *)
(* axis; the provider answers every request with an error.                  *)

MotionMaxStarted == 3

MotionMaxInFlight == 1

MotionFixes == {[lat |-> 100, lng |-> 100], [lat |-> 103, lng |-> 100],
                [lat |-> 106, lng |-> 100], [lat |-> 100, lng |-> 105]}

MotionBounds == Bounded(MotionMaxStarted, MotionMaxInFlight, 0)

NextMotion ==
  \/ Mount({"granted"}) /\ MotionBounds
  \/ SetAlertThreshold(Thresholds) /\ MotionBounds
  \/ GpsSuccess(MotionFixes) /\ MotionBounds
  \/ OneShotSuccess(MotionFixes) /\ MotionBounds
  \/ AqiResponse({PayloadNotOk}, {FALSE}) /\ MotionBounds

SpecMotion == InitGps /\ [][NextMotion]_vars

----------------------------------------------------------------------------
(* The reading orchestrator called directly: fetchAqi with either source,   *)
(* forced or not, with and without a city text and coordinates (which the   *)
(* IP fallback of a manual check supplies); provider responses that are an  *)
(* error, carry no value, or carry a reading below the threshold.           *)

FetchMaxStarted == 2

FetchMaxInFlight == 1

FetchPayloads == {PayloadNotOk, PayloadNoValue, Payload(1200)}

FetchBounds == Bounded(FetchMaxStarted, FetchMaxInFlight, 0)

NextFetch ==
  \/ Mount({"granted"}) /\ FetchBounds
  \/ SetCity({<<>>, <<"D", " ">>}) /\ FetchBounds
  \/ HandleFetchClick /\ FetchBounds
  \/ FetchAqiCalled({"manual", "auto"}, BOOLEAN) /\ FetchBounds
  \/ IpLookupSucceeded(IpCoords) /\ FetchBounds
  \/ AqiResponse(FetchPayloads, {FALSE}) /\ FetchBounds
  \/ PersistDone /\ FetchBounds

SpecFetch == InitCooldown /\ [][NextFetch]_vars

----------------------------------------------------------------------------
(* The reading log: manual checks of one typed city, each started after the *)
(* previous cycle ended; readings below and above the threshold, a provider *)
(* error; persistence writes that succeed or fail.                          *)

LogMaxStarted == 7

LogPayloads == {Payload(1200), Payload(1600), PayloadNotOk}

LogBounds == Bounded(LogMaxStarted, 1, 0)

NextLog ==
  \/ Mount({"granted"}) /\ LogBounds
  \/ SetCity({<<"D", " ">>}) /\ LogBounds
  \/ city # <<>> /\ inflight = <<>> /\ HandleFetchClick /\ LogBounds
  \/ AqiResponse(LogPayloads, {FALSE}) /\ LogBounds
  \/ PersistDone /\ LogBounds

SpecLog == InitCooldown /\ [][NextLog]_vars

----------------------------------------------------------------------------
(* The alert log: manual checks of one typed city, each started after the   *)
(* previous cycle ended, with the threshold changed in between and while a  *)
(* request is in flight; readings in two buckets above the default          *)
(* threshold, one of them below the raised threshold, one carrying the      *)
(* station's observation time.                                              *)

AlertLogMaxStarted == 6

\* a reading of 300 observed at the station's time
PayloadTimed == [Payload(3000) EXCEPT !.time = Some(MountTime - TickMs)]

AlertLogPayloads == {Payload(1600), PayloadTimed}

AlertLogBounds == Bounded(AlertLogMaxStarted, 1, 0)

NextAlertLog ==
  \/ Mount({"granted"}) /\ AlertLogBounds
  \/ SetCity({<<"D", " ">>}) /\ AlertLogBounds
  \/ SetAlertThreshold(Thresholds) /\ AlertLogBounds
  \/ city # <<>> /\ inflight = <<>> /\ HandleFetchClick /\ AlertLogBounds
  \/ AqiResponse(AlertLogPayloads, {FALSE}) /\ AlertLogBounds
  \/ PersistDone /\ AlertLogBounds

SpecAlertLog == InitCooldown /\ [][NextAlertLog]_vars

----------------------------------------------------------------------------
(* The reverse-geocode cache: positions from the watch within and beyond   *)
(* the reuse threshold of one another, the maps script loading at any      *)
(* moment, the geocoder answering in any order with an address, without    *)
(* one, without a result or with a failure status; the provider answers    *)
(* the cycles the positions start with a station or with an error.         *)

GeocodeMaxStarted == 2

GeocodeMaxPending == 2

GeocodeFixes == {[lat |-> 100, lng |-> 100], [lat |-> 103, lng |-> 100],
                 [lat |-> 100, lng |-> 109], [lat |-> 100, lng |-> 110]}

GeocodePayloads == {Payload(1200), PayloadNotOk}

GeocodeBounds ==
  /\ Bounded(GeocodeMaxStarted, 1, 0)
  /\ Len(geocodes') <= GeocodeMaxPending

NextGeocode ==
  \/ Mount({"unsupported"}) /\ GeocodeBounds
  \/ GpsSuccess(GeocodeFixes) /\ GeocodeBounds
  \/ MapLoaded /\ GeocodeBounds
  \/ GeocodeAnswered(GeocodeAnswers) /\ GeocodeBounds
  \/ AqiResponse(GeocodePayloads, {FALSE}) /\ GeocodeBounds
  \/ PersistDone /\ GeocodeBounds

SpecGeocode == InitGps /\ [][NextGeocode]_vars

----------------------------------------------------------------------------
(* The city ranking: the refresh of the first render and of the Refresh    *)
(* button, the six requests settling in any order; each candidate can be   *)
(* answered with a value or fail in one way (rejected, status not ok, no   *)
(* derivable value), two candidates can report the same value.             *)

RankingAnswersByCity ==
  << {Payload(3000), Rejected},
     {Payload(1200), PayloadNotOk},
     {Payload(400), PayloadNoValue},
     {PayloadFallback, PayloadNotOk},
     {Payload(1205), Rejected},
     {[Payload(1200) EXCEPT !.name = <<>>], PayloadNoValue} >>

NextRanking ==
  \/ Mount({"unsupported"})
  \/ RefreshRankings
  \/ RankingAnswered(RankingAnswersByCity)

SpecRanking == InitCooldown /\ [][NextRanking]_vars

----------------------------------------------------------------------------
(* deriveAqiValue as a function: a station record drawn from primary       *)
(* indexes of every JSON kind (numbers positive, zero, negative and        *)
(* fractional, strings numeric, blank and "-", booleans, null, nothing)    *)
(* and sub-indicators present as numbers, present as a string, or absent.  *)
(* A station record that is itself absent, or has no iaqi object, reads as *)
(* one whose fields are all absent (optional chaining).                    *)

RawPrimaries ==
  {JNumber(1600), JNumber(1205), JNumber(0), JNumber(-50),
   JString(<<"-">>), JString(<<"1", "6", "0">>), JString(<<>>),
   JString(<<" ", "7", " ">>), JNull, JUndefined, JBoolean(TRUE), JBoolean(FALSE)}

RawStations ==
  {[aqi |-> a,
    iaqi |-> [NoIaqi EXCEPT !["pm25"] = p1, !["pm10"] = p2, !["o3"] = p3,
                            !["no2"] = JUndefined, !["so2"] = JUndefined,
                            !["co"] = p6]] :
     a \in RawPrimaries,
     p1 \in {JUndefined, JNumber(124), JString(<<"1", "2">>)},
     p2 \in {JUndefined, JNumber(1546)},
     p3 \in {JUndefined, JNumber(-25)},
     p6 \in {JUndefined, JNumber(0)}}

InitDerive ==
  /\ InitApp /\ geoSupported /\ geoSilent
  /\ arg \in {Some(d) : d \in RawStations}
  /\ result = None

\* deriveAqiValue(stationData) is called and returns
DeriveAqiValue ==
  /\ IsSome(arg) /\ result = None
  /\ result' = Some(deriveAqiValue(StationData(Val(arg))))
  /\ UNCHANGED <<mounted, now, notificationStatus, permPending, alertThreshold,
                 city, location, locationRef, locationStatus, lastLocationRef,
                 geoSupported, geoSilent, watchOpen, watches, unmounted, oneShots,
                 idleTimer,
                 idleFiredAt, locationLabel, lastResolvedPlacenameRef,
                 isMapLoaded, geocodes, cityRankings, rankingBatch,
                 ipFallbackTriggeredRef, ipLookups, inflight, aqi, lastAlertRef,
                 alertLog, history, autoRefreshEnabled, autoRefreshMinutes,
                 nextAutoRefresh, timers, effectTimer, calls, shown, shownAt,
                 readings, started, arg>>

SpecDerive == InitDerive /\ [][DeriveAqiValue]_vars

----------------------------------------------------------------------------
(* healthAdvice and healthStatus as functions of one value: every value    *)
(* from -2 to 320 in steps of 0.5, which includes each bound, the values   *)
(* next to it on both sides and fractional values.                         *)

AdviceSteps == 640

AdviceValues == {5 * k : k \in -4..AdviceSteps}

InitAdvice ==
  /\ InitApp /\ geoSupported /\ geoSilent
  /\ arg \in {Some(v) : v \in AdviceValues}
  /\ result = None

\* healthAdvice(value) is called by the cycle and healthStatus is computed
\* from the aqi state holding the same value
AdviseAndStatus ==
  /\ IsSome(arg) /\ result = None
  /\ result' = Some([advice |-> healthAdvice(Val(arg)), status |-> healthStatus(arg)])
  /\ UNCHANGED <<mounted, now, notificationStatus, permPending, alertThreshold,
                 city, location, locationRef, locationStatus, lastLocationRef,
                 geoSupported, geoSilent, watchOpen, watches, unmounted, oneShots,
                 idleTimer,
                 idleFiredAt, locationLabel, lastResolvedPlacenameRef,
                 isMapLoaded, geocodes, cityRankings, rankingBatch,
                 ipFallbackTriggeredRef, ipLookups, inflight, aqi, lastAlertRef,
                 alertLog, history, autoRefreshEnabled, autoRefreshMinutes,
                 nextAutoRefresh, timers, effectTimer, calls, shown, shownAt,
                 readings, started, arg>>

SpecAdvice == InitAdvice /\ [][AdviseAndStatus]_vars

----------------------------------------------------------------------------
(* parseStationCoordinates as a function: arrays of one to three           *)
(* components, delimited strings, objects with lat, lng and lon, and       *)
(* values that are none of these; a component is a number, a numeric or    *)
(* non-numeric string, the empty string, null, a boolean, or missing.      *)
(* Numbers are in tenths of a degree here.                                 *)

GeoComponents ==
  {JNumber(285), JNumber(-771), JString(<<"1", "2">>), JString(<<"-">>),
   JString(<<>>), JNull, JUndefined, JBoolean(TRUE)}

GeoStrings ==
  { <<"1", "2", ",", "3", "4">>, <<"1", "2", " ", "3", "4">>,
    <<"1", "2", ",", " ", "3", "4">>, <<" ", "1", "2", ",", "3", "4", ",", "5">>,
    <<"1", "2">>, <<"a", ",", "b">>, <<"1", "2", ",", "-">>, <<",">> }

RawGeos ==
  {JArray(<<a, b>>) : a \in GeoComponents, b \in GeoComponents}
  \cup {JArray(<<JNumber(285)>>), JArray(<<>>),
        JArray(<<JNumber(285), JNumber(-771), JNumber(5)>>)}
  \cup {JString(s) : s \in GeoStrings}
  \cup {JObject(a, b, c) : a \in {JNumber(285), JNull, JUndefined, JString(<<>>)},
                           b \in {JNumber(-771), JNull, JUndefined, JString(<<"-">>)},
                           c \in {JNumber(-772), JNull, JUndefined}}
  \cup {JNull, JUndefined, JString(<<>>), JNumber(0), JNumber(285),
        JBoolean(FALSE), JBoolean(TRUE)}

InitParse ==
  /\ InitApp /\ geoSupported /\ geoSilent
  /\ arg \in {Some(g) : g \in RawGeos}
  /\ result = None

\* parseStationCoordinates(value) is called and returns
ParseStationCoordinates ==
  /\ IsSome(arg) /\ result = None
  /\ result' = Some(parseStationCoordinates(StationGeo(Val(arg))))
  /\ UNCHANGED <<mounted, now, notificationStatus, permPending, alertThreshold,
                 city, location, locationRef, locationStatus, lastLocationRef,
                 geoSupported, geoSilent, watchOpen, watches, unmounted, oneShots,
                 idleTimer,
                 idleFiredAt, locationLabel, lastResolvedPlacenameRef,
                 isMapLoaded, geocodes, cityRankings, rankingBatch,
                 ipFallbackTriggeredRef, ipLookups, inflight, aqi, lastAlertRef,
                 alertLog, history, autoRefreshEnabled, autoRefreshMinutes,
                 nextAutoRefresh, timers, effectTimer, calls, shown, shownAt,
                 readings, started, arg>>

SpecParse == InitParse /\ [][ParseStationCoordinates]_vars

----------------------------------------------------------------------------
(* The city lookup: positions from the watch, a typed city, manual checks, *)
(* cycles by coordinates and by name in flight together, stations with and *)
(* without coordinates, a response without a value.                        *)

CityLookupMaxStarted == 2

CityLookupMaxInFlight == 2

CityLookupPayloads == {Payload(1200), PayloadStation, PayloadNoValue}

CityLookupBounds == Bounded(CityLookupMaxStarted, CityLookupMaxInFlight, 0)

NextCityLookup ==
  \/ Mount({"unsupported"}) /\ CityLookupBounds
  \/ SetCity({<<"D", " ">>}) /\ CityLookupBounds
  \/ HandleFetchClick /\ CityLookupBounds
  \/ GpsSuccess(LocationFixes) /\ CityLookupBounds
  \/ AqiResponse(CityLookupPayloads, {FALSE}) /\ CityLookupBounds
  \/ PersistDone /\ CityLookupBounds

SpecCityLookup == InitGps /\ [][NextCityLookup]_vars

----------------------------------------------------------------------------
(* The GPS watch: the first render, the changes that re-create fetchAqi    *)
(* and with it the handlers the watch was given (a city edit, the          *)
(* notification permission answered), positions and errors                 *)
(* from the watch, teardown at any moment; with and without the            *)
(* geolocation capability.                                                 *)

WatchMaxStarted == 1

WatchMaxInFlight == 1

WatchBounds == Bounded(WatchMaxStarted, WatchMaxInFlight, 0)

NextWatch ==
  \/ Mount({"ask"}) /\ WatchBounds
  \/ Unmount /\ WatchBounds
  \/ PermissionAnswered({"granted", "denied"}) /\ WatchBounds
  \/ SetCity({<<"D", " ">>}) /\ WatchBounds
  \/ GpsSuccess(LocationFixes) /\ WatchBounds
  \/ GpsError({1, 3}) /\ WatchBounds
  \/ IpLookupFailed /\ WatchBounds

InitWatch == Init /\ ~geoSilent

SpecWatch == InitWatch /\ [][NextWatch]_vars

----------------------------------------------------------------------------
(* The good tier: permission granted when the page loads, the threshold    *)
(* slider at its lowest, default and highest setting, manual checks of a   *)
(* typed city, readings of 40 and 50.                                      *)

GoodMaxStarted == 2

GoodMaxInFlight == 1

GoodPayloads == {Payload(400), Payload(500)}

GoodThresholds == {th \in SliderThresholds : th \in {50, DEFAULT_THRESHOLD, 400}}

GoodBounds == Bounded(GoodMaxStarted, GoodMaxInFlight, 0)

NextGood ==
  \/ Mount({"granted"}) /\ GoodBounds
  \/ SetCity({<<"D", " ">>}) /\ GoodBounds
  \/ SetAlertThreshold(GoodThresholds) /\ GoodBounds
  \/ HandleFetchClick /\ GoodBounds
  \/ AqiResponse(GoodPayloads, {FALSE}) /\ GoodBounds
  \/ PersistDone /\ GoodBounds

SpecGood == InitCooldown /\ [][NextGood]_vars

----------------------------------------------------------------------------
(* Late answers of the geocoder: positions from the watch far from each    *)
(* other, the maps script loading, the geocoder answering in any order,    *)
(* before and after the page is torn down.                                 *)

StaleMaxStarted == 2

StaleMaxPending == 2

StaleFixes == {[lat |-> 100, lng |-> 100], [lat |-> 100, lng |-> 110]}

StaleAnswers ==
  { [status |-> "OK", hasResult |-> TRUE, address |-> <<"P">>],
    [status |-> "ERROR", hasResult |-> FALSE, address |-> <<>>] }

StaleBounds ==
  /\ Bounded(StaleMaxStarted, 1, 0)
  /\ Len(geocodes') <= StaleMaxPending

NextStale ==
  \/ Mount({"unsupported"}) /\ StaleBounds
  \/ Unmount /\ StaleBounds
  \/ GpsSuccess(StaleFixes) /\ StaleBounds
  \/ MapLoaded /\ StaleBounds
  \/ GeocodeAnswered(StaleAnswers) /\ StaleBounds
  \/ AqiResponse({Payload(1200)}, {FALSE}) /\ StaleBounds
  \/ PersistDone /\ StaleBounds

SpecStale == InitGps /\ [][NextStale]_vars

----------------------------------------------------------------------------
(* Properties of the AlertManager *)

Reading(k) == readings[k]

\* the reading reached the delivery channel with permission granted in its
\* closure, and the channel did not throw
Considered(e) == e.eligible /\ e.envStatus = "granted" /\ ~e.threw

\* time since the last displayed notification, and whether it had this signature
Elapsed(e) == e.at - (IF e.lastShown = <<>> THEN 0 ELSE e.lastShown[1].at)

SameAsLast(e) == e.lastShown # <<>> /\ e.lastShown[1].sig = e.signature

\* C1: no two displayed notifications carry the same signature less than the
\* cooldown apart, whatever was displayed in between.
C1_NoRepeatWithinCooldown ==
  \A k \in 1..Len(shown) :
    IsSome(shown[k].prevAt) => shown[k].at - Val(shown[k].prevAt) >= ALERT_COOLDOWN_MS

\* C2 as stated: an eligible reading is suppressed exactly when less than the
\* cooldown has elapsed since the last displayed notification and it has the
\* same signature (so it is displayed at exactly the cooldown).
C2_SuppressedIffUnderCooldown ==
  \A k \in 1..Len(readings) :
    Considered(Reading(k)) =>
      (~Reading(k).displayed <=>
         (Elapsed(Reading(k)) < ALERT_COOLDOWN_MS /\ SameAsLast(Reading(k))))

\* C2 amended: an eligible reading is suppressed exactly when at most the
\* cooldown has elapsed since the last displayed notification and it has the
\* same signature; it is displayed only once more than the cooldown elapsed.
C2_SuppressedIffWithinCooldown ==
  \A k \in 1..Len(readings) :
    Considered(Reading(k)) =>
      (~Reading(k).displayed <=>
         (Elapsed(Reading(k)) <= ALERT_COOLDOWN_MS /\ SameAsLast(Reading(k))))

\* a reading with the last signature arrived exactly one cooldown after it
\* and was suppressed
C2_Witness ==
  \E k \in 1..Len(readings) :
    /\ Considered(Reading(k))
    /\ SameAsLast(Reading(k))
    /\ Elapsed(Reading(k)) = ALERT_COOLDOWN_MS
    /\ ~Reading(k).displayed

ScenarioValues == <<1200, 1600, 1620, 3000>>

\* the first four readings of the session are the scenario's
ScenarioRan ==
  /\ Len(readings) >= 4
  /\ \A k \in 1..4 :
       /\ Reading(k).value = ScenarioValues[k]
       /\ Reading(k).label = Reading(1).label
       /\ Reading(k).threshold = DEFAULT_THRESHOLD
       /\ Reading(k).envStatus = "granted"
       /\ ~Reading(k).threw
  /\ Reading(4).at - Reading(1).at <= ALERT_COOLDOWN_MS

\* C3: threshold 150, readings 120, 160, 162, 300 for one label within one
\* cooldown window: exactly two notifications, for 160 and for 300.
C3_ScenarioTwoAlerts ==
  ScenarioRan =>
    /\ ~Reading(1).displayed
    /\ Reading(2).displayed
    /\ ~Reading(3).displayed
    /\ Reading(4).displayed
    /\ Len(readings) = 4 => Len(shownAt) = 2 /\ Len(alertLog) = 2

C3_Witness == ScenarioRan /\ Reading(4).at > Reading(1).at /\ Len(alertLog) = 2

\* C4: the first reading at or above the threshold that completes after the
\* permission became granted is displayed (the channel not throwing), also
\* when its request was in flight when the permission was granted.
C4_FirstEligibleAfterGrantDisplayed ==
  \A k \in 1..Len(readings) :
    ( /\ Reading(k).eligible
      /\ Reading(k).status = "granted"
      /\ ~Reading(k).threw
      /\ \A j \in 1..(k - 1) : ~(Reading(j).eligible /\ Reading(j).status = "granted") )
    => Reading(k).displayed

C6_NoAlertBelowThreshold ==
  /\ \A k \in 1..Len(readings) :
       Reading(k).displayed => Reading(k).value >= Reading(k).threshold * 10
  /\ ~mounted => alertThreshold = 150

\* a reading of 160 with permission granted and threshold 200 displayed nothing
C6_Witness ==
  \E k \in 1..Len(readings) :
    /\ Reading(k).envStatus = "granted"
    /\ Reading(k).value >= DEFAULT_THRESHOLD * 10
    /\ Reading(k).value < Reading(k).threshold * 10
    /\ ~Reading(k).displayed

\* C7: a notification is displayed only while notificationStatus is granted.
C7_DisplayedOnlyWhenGranted ==
  /\ shown # <<>> => notificationStatus = "granted"
  /\ \A k \in 1..Len(readings) : Reading(k).displayed => Reading(k).status = "granted"

\* a reading at or above the threshold while the status is not granted
C7_Witness ==
  \E k \in 1..Len(readings) :
    /\ Reading(k).eligible
    /\ Reading(k).status \in {"off", "default", "denied", "unsupported"}
    /\ ~Reading(k).threw
    /\ ~Reading(k).displayed

----------------------------------------------------------------------------
(* Properties of the AutoRefreshScheduler *)

CountCalls(seq, names) == Cardinality({k \in 1..Len(seq) : seq[k] \in names})

\* calls into the reading orchestrator or the fallback resolution
CycleCalls == {"fetchAqi", "resolveApproximateLocation"}

\* C8: at most one interval timer is live, and none while auto-refresh is
\* disabled.
C8_AtMostOneTimer ==
  /\ Cardinality(timers) <= 1
  /\ ~autoRefreshEnabled => timers = {}

\* the cadence was changed while enabled and one timer, at the new cadence,
\* is live
C8_Witness ==
  /\ autoRefreshEnabled
  /\ autoRefreshMinutes = 5
  /\ \E t \in timers : t.intervalMs = 5 * MS_PER_MINUTE
  /\ Cardinality(timers) = 1

\* requests a cycle sends: to the AQI provider, to the IP location service
CycleRequests == {"axios.get:geo", "axios.get:city", "fetch:ipapi"}

\* C9: enabling auto-refresh, or changing the cadence while it is enabled,
\* triggers exactly one reading cycle (one call into the reading orchestrator
\* or the fallback resolution, or at least one request sent for it) and arms
\* the timer at the configured interval.
C9_OneCyclePerArm ==
  [][ ( \/ ~autoRefreshEnabled /\ autoRefreshEnabled'
        \/ /\ autoRefreshEnabled /\ autoRefreshEnabled'
           /\ autoRefreshMinutes' # autoRefreshMinutes )
      => /\ \/ CountCalls(calls', CycleCalls) = 1
            \/ CountCalls(calls', CycleRequests) = 1
         /\ \E t \in timers' :
              /\ t.intervalMs = autoRefreshMinutes' * MS_PER_MINUTE
              /\ t.dueAt = now' + t.intervalMs ]_vars

\* C10: the next-fire display is present exactly while auto-refresh is
\* enabled, and no timer callback runs while it is disabled.
C10_NextFireIffEnabled ==
  /\ autoRefreshEnabled <=> IsSome(nextAutoRefresh)
  /\ ~autoRefreshEnabled => timers = {}
  /\ CountCalls(calls, {"setInterval:callback"}) > 0 => autoRefreshEnabled

\* auto-refresh was disabled while a cycle it had started by city name was
\* still in flight
C10_Witness ==
  /\ ~autoRefreshEnabled
  /\ nextAutoRefresh = None
  /\ \E k \in 1..Len(inflight) :
       inflight[k].source = "auto" /\ ~inflight[k].shouldUseGeo

----------------------------------------------------------------------------
(* Properties of the target selection *)

Has(seq, x) == \E k \in 1..Len(seq) : seq[k] = x

\* the calls that select a target: a query by coordinates, a query by name,
\* the fallback resolution
TargetCalls == {"axios.get:geo", "axios.get:city", "resolveApproximateLocation"}

\* the target a handler selected: the first target call it made
Target(s) ==
  LET idx == {k \in 1..Len(s.calls) : s.calls[k] \in TargetCalls}
  IN IF idx = {} THEN "none"
     ELSE s.calls[CHOOSE k \in idx : \A j \in idx : k <= j]

ManualTarget == Target(handleFetchClick(Begin))

AutoTarget == Target(triggerRefresh(Begin, Begin))

\* C11: a timer fire derives its target from the state at fire time: the
\* known coordinates if any (query by these coordinates), otherwise a
\* non-blank city (query by this name), otherwise the fallback resolution,
\* not forced (no lookup is started when one was already triggered).
C11_FireRederivesTarget ==
  [][ Has(calls', "setInterval:callback") =>
        /\ IsSome(location) =>
             /\ Target([calls |-> calls']) = "axios.get:geo"
             /\ inflight'[Len(inflight')].geoTarget = location
             /\ ~Has(calls', "axios.get:city")
             /\ ~Has(calls', "resolveApproximateLocation")
        /\ (~IsSome(location) /\ Trim(city) # <<>>) =>
             /\ Target([calls |-> calls']) = "axios.get:city"
             /\ inflight'[Len(inflight')].env.city = city
             /\ ~Has(calls', "axios.get:geo")
             /\ ~Has(calls', "resolveApproximateLocation")
        /\ (~IsSome(location) /\ Trim(city) = <<>>) =>
             /\ Target([calls |-> calls']) = "resolveApproximateLocation"
             /\ ~Has(calls', "axios.get:geo")
             /\ ~Has(calls', "axios.get:city")
             /\ ipFallbackTriggeredRef => ~Has(calls', "fetch:ipapi") ]_vars

\* a timer fired and queried by the coordinates the IP fallback supplied,
\* a city name being typed as well
C11_Witness ==
  /\ Has(calls, "setInterval:callback")
  /\ Has(calls, "axios.get:geo")
  /\ locationStatus = "Approximate via network"
  /\ Trim(city) # <<>>

\* C12 as stated: in every state a timer fire selects the target a manual
\* check would select.
C12_AutoTargetIsManualTarget == mounted => AutoTarget = ManualTarget

\* C12 amended: a timer fire and a manual check select the same target unless
\* both a non-blank city and coordinates are known; then the manual check
\* queries by name and the timer fire by coordinates.
C12_TargetsAgreeUnlessBoth ==
  mounted =>
    IF Trim(city) # <<>> /\ IsSome(location)
      THEN ManualTarget = "axios.get:city" /\ AutoTarget = "axios.get:geo"
      ELSE AutoTarget = ManualTarget

\* a non-blank city and coordinates are both known, and the two selections
\* differ
C12_Witness ==
  /\ mounted /\ Trim(city) # <<>> /\ IsSome(location)
  /\ ManualTarget # AutoTarget

----------------------------------------------------------------------------
(* Properties of the LocationResolver *)

\* a step started an IP lookup
LookupStarted == Len(ipLookups') > Len(ipLookups)

\* the lookup a step started last
StartedLookup == ipLookups'[Len(ipLookups')]

\* C13: a trigger that is not forced never starts an IP lookup while another
\* lookup is outstanding.
C13_SingleFlight ==
  [][ LookupStarted /\ ~StartedLookup.forced => ipLookups = <<>> ]_vars

\* the forced lookups outstanding
ForcedLookups == {k \in 1..Len(ipLookups) : ipLookups[k].forced}

\* C14: when location access is refused right after start, the fallback is
\* invoked with force exactly once: the watch and the one-shot read together
\* never have two forced lookups outstanding.
C14_DeniedForcesFallbackOnce == Cardinality(ForcedLookups) <= 1

\* the statuses of LocationState the code has values for
ErrorStatuses ==
  {"Use HTTPS or localhost for live location", "Permission denied",
   "Position unavailable", "Location timed out", "Unable to get location",
   "Geolocation not supported", "Enter a city to start"}

\* C15 as stated: coordinates are present iff the status is neither Idle nor
\* an error status (the status while an IP lookup is outstanding is left
\* open).
C15_CoordsIffNotIdleOrError ==
  /\ locationStatus \in {"Idle"} \cup ErrorStatuses => location = None
  /\ locationStatus \in {"Locating", "Live", "Approximate via network",
                         "City lookup"} => IsSome(location)

\* C15, amended: coordinates are present whenever the status is Live or
\* approximate-via-network and absent while it is Idle.
C15_CoordsWhenLiveOrApproximate ==
  /\ locationStatus \in {"Live", "Approximate via network"} => IsSome(location)
  /\ locationStatus = "Idle" => location = None

\* a reading for a typed city whose station has no parseable coordinates was
\* shown before any coordinates were known
C15_Witness ==
  /\ locationStatus = "City lookup" /\ location = None /\ IsSome(aqi)

\* C16: after mount, a change of the alert threshold, of the city text, of
\* the notification permission or of the auto-refresh switch leaves the
\* location status as it was, unless the step also starts an IP lookup.
C16_StatusFrame ==
  [][ /\ mounted
      /\ \/ alertThreshold' # alertThreshold
         \/ city' # city
         \/ notificationStatus' # notificationStatus
         \/ autoRefreshEnabled' # autoRefreshEnabled
      /\ ~LookupStarted
      => locationStatus' = locationStatus ]_vars

\* C17: once the delay since mount has passed without coordinates, the idle
\* timeout has invoked the fallback, at the moment the delay elapsed; and the
\* timeout invokes the fallback only while no coordinates are known.
C17_IdleTimeoutAtDelay ==
  [][ /\ mounted' /\ location' = None /\ now' > MountTime + IDLE_TIMEOUT_MS
         => idleFiredAt' = Some(MountTime + IDLE_TIMEOUT_MS)
      /\ Has(calls', "setTimeout:callback") => location = None ]_vars

\* some axis of b differs from a by the motion threshold or more
Moved(a, b) ==
  \/ Abs(a.lat - b.lat) >= MOTION_THRESHOLD
  \/ Abs(a.lng - b.lng) >= MOTION_THRESHOLD

\* a step delivered a position to handleGeoSuccess
GpsUpdate == Has(calls', "handleGeoSuccess")

\* C18 as stated: a GPS update sets Live with the new coordinates, and an
\* update that follows a Live fix triggers a reading cycle exactly when it
\* moved by the threshold or more from that fix.
C18_CycleIffMovedFromLastFix ==
  [][ GpsUpdate =>
        /\ locationStatus' = "Live" /\ IsSome(location')
        /\ locationStatus = "Live" /\ IsSome(location)
           => (Has(calls', "fetchAqi") <=> Moved(Val(location), Val(location'))) ]_vars

\* C18, amended: a GPS update sets Live with the new coordinates, and
\* triggers one reading cycle by coordinates exactly when it is the first
\* fix or moved by the threshold or more from the last fix that triggered a
\* cycle, which it then replaces.
C18_CycleIffMovedFromLastTrigger ==
  [][ GpsUpdate =>
        /\ locationStatus' = "Live" /\ IsSome(location')
        /\ LET moved == \/ lastLocationRef = None
                        \/ Moved(Val(lastLocationRef), Val(location'))
           IN /\ moved => /\ CountCalls(calls', {"fetchAqi"}) = 1
                          /\ CountCalls(calls', {"axios.get:geo"}) = 1
                          /\ lastLocationRef' = location'
              /\ ~moved => /\ ~Has(calls', "fetchAqi")
                           /\ lastLocationRef' = lastLocationRef ]_vars

\* an update within the threshold was taken silently: the status is Live with
\* the new fix, no cycle started, the fix that triggered the last cycle stays
C18_Witness ==
  /\ Has(calls, "handleGeoSuccess") /\ ~Has(calls, "fetchAqi")
  /\ locationStatus = "Live"
  /\ IsSome(lastLocationRef) /\ location # lastLocationRef

----------------------------------------------------------------------------
(* Properties of the ReadingOrchestrator *)

\* the reading state: the value shown, the history, the alerts, the cycles
ReadingState ==
  <<aqi, history, alertLog, readings, lastAlertRef, inflight, started>>

\* a step called fetchAqi directly, with neither a city text nor coordinates
UntargetedCall ==
  /\ Has(calls', "source:manual") \/ Has(calls', "source:auto")
  /\ city = <<>> /\ locationRef = None

\* the prompts of fetchAqi for a missing target
TargetPrompts ==
  {"alert:Allow location access or enter a city to fetch AQI.",
   "alert:Enter a city name to fetch AQI data."}

\* C19 as stated: a call without a target sends no request, changes no
\* reading state and prompts the user, whatever its source.
C19_NoTargetPrompts ==
  [][ UntargetedCall =>
        /\ CountCalls(calls', {"axios.get:geo", "axios.get:city"}) = 0
        /\ UNCHANGED ReadingState
        /\ CountCalls(calls', TargetPrompts) = 1 ]_vars

\* C19, amended: a call without a target sends no request and changes no
\* reading state; it prompts the user exactly when its source is manual.
C19_NoTargetPromptsIfManual ==
  [][ UntargetedCall =>
        /\ CountCalls(calls', {"axios.get:geo", "axios.get:city"}) = 0
        /\ UNCHANGED ReadingState
        /\ CountCalls(calls', TargetPrompts) =
             (IF Has(calls', "source:manual") THEN 1 ELSE 0) ]_vars

\* an automatic call without a target returned silently
C19_Witness ==
  /\ Has(calls, "source:auto") /\ Has(calls, "fetchAqi")
  /\ city = <<>> /\ locationRef = None
  /\ CountCalls(calls, TargetPrompts) = 0

\* the responses that yield no reading: a status other than ok, or no
\* derivable value
FailedPayloads ==
  {p \in Payloads : p.status # "ok" \/ deriveAqiValue(p) = None}

\* what fetchAqi signals for such a response
FailureMessage(p) ==
  IF p.status # "ok" THEN "alert:City not found or API error"
  ELSE "alert:AQI readings are unavailable for this location right now."

\* C20: a response with a status other than ok, or without a derivable
\* value, ends its cycle with no history entry now or later, no alert
\* evaluation, no notification, no persistence write, and the displayed
\* value, the location status and the coordinates as they were; it signals
\* one message, which differs between the two cases.
C20_FailedResponseFrame ==
  \A i \in 1..Len(inflight) :
    inflight[i].phase = "request" =>
      \A p \in FailedPayloads :
        LET s2 == Render(Begin, fetchAqiResponded(Begin, i, p, FALSE))
        IN /\ s2.inflight = RemoveAt(inflight, i)
           /\ s2.history = history
           /\ s2.readings = readings /\ s2.alertLog = alertLog
           /\ s2.lastAlertRef = lastAlertRef /\ s2.shown = <<>>
           /\ s2.aqi = aqi
           /\ s2.locationStatus = locationStatus /\ s2.location = location
           /\ s2.calls = <<FailureMessage(p)>>
           /\ \A q \in FailedPayloads :
                (q.status = "ok") # (p.status = "ok")
                  => FailureMessage(q) # FailureMessage(p)

\* a second cycle was answered without a derivable value: the value and the
\* history entry of the first are as they were
C20_Witness ==
  /\ Has(calls, "alert:AQI readings are unavailable for this location right now.")
  /\ IsSome(aqi) /\ Len(history) = 1 /\ inflight = <<>>

\* a step issued the persistence write of a cycle
WriteIssued == Has(calls', "addDoc")

\* a step appended to the history
HistoryAppended == history' # history

\* C21: when the persistence write of a cycle is issued, the alert
\* evaluation of the derived value has been made and the write is the last
\* thing the step does; the entry a step appends to the history belongs to a
\* cycle whose alert evaluation was made in an earlier step.
C21_CycleOrder ==
  [][ /\ WriteIssued =>
           /\ Len(readings') = Len(readings) + 1
           /\ aqi' = Some(readings'[Len(readings')].value)
           /\ calls'[Len(calls')] = "addDoc"
      /\ HistoryAppended =>
           /\ history' # <<>>
           /\ \E k \in 1..Len(readings) :
                /\ readings[k].value = history'[1].aqi
                /\ readings[k].label = history'[1].label ]_vars

\* a cycle ended: its value is shown, its alert evaluation is logged, its
\* entry heads the history
C21_Witness ==
  /\ history # <<>> /\ readings # <<>> /\ inflight = <<>>
  /\ aqi = Some(history[1].aqi)
  /\ history[1].aqi = readings[Len(readings)].value

\* C22: once the persistence write of a cycle has been issued, the history
\* holds the entry of that cycle, whether or not the write ever completes.
C22_HistoryBeforeWrite ==
  \A i \in 1..Len(inflight) :
    inflight[i].phase = "persist" =>
      \E k \in 1..Len(history) : history[k] = Val(inflight[i].reading)

\* the state without the calls observed in the last step
Silent(s) == [s EXCEPT !.calls = <<>>]

\* C23: for every cycle awaiting its persistence write, a write that fails
\* appends the cycle's entry to the history, ends the cycle, signals no fetch
\* error (only the diagnostic warning), and leaves the same state as a write
\* that succeeds, so that later cycles run as after a success.
C23_WriteFailureSwallowed ==
  \A i \in 1..Len(inflight) :
    inflight[i].phase = "persist" =>
      LET failed == Render(Begin, fetchAqiPersisted(Begin, i, FALSE))
          done == Render(Begin, fetchAqiPersisted(Begin, i, TRUE))
      IN /\ failed.history = Take(<<Val(inflight[i].reading)>> \o history,
                                  HISTORY_CAP)
         /\ failed.inflight = RemoveAt(inflight, i)
         /\ failed.calls = <<"console.warn:Failed to log to Firestore">>
         /\ Silent(failed) = Silent(done)

\* the write of a cycle failed and its entry was appended on top of the
\* entry of an earlier cycle
C23_Witness ==
  /\ Len(history) >= 2 /\ inflight = <<>>
  /\ Has(calls, "console.warn:Failed to log to Firestore")

\* the cycles that ended successfully, oldest first: with cycles run one
\* after the other, the evaluated readings whose write has settled
Succeeded ==
  IF \E i \in 1..Len(inflight) : inflight[i].phase = "persist"
    THEN SubSeq(readings, 1, Len(readings) - 1)
    ELSE readings

\* the n-th newest successful cycle as a history entry
NewestEntry(n) ==
  LET e == Succeeded[Len(Succeeded) + 1 - n]
  IN [label |-> e.label, aqi |-> e.value, observedAt |-> e.at]

\* C24: the history holds at most 6 entries and equals the newest
\* min(6, n) of the n cycles that ended successfully, newest first; a step
\* that changes it prepends one entry and drops only what exceeds the cap.
C24_HistoryNewestFirst ==
  [][ /\ Len(history') <= HISTORY_CAP
      /\ Len(history') = IF Len(Succeeded') <= HISTORY_CAP
                           THEN Len(Succeeded') ELSE HISTORY_CAP
      /\ \A n \in 1..Len(history') : history'[n] = NewestEntry(n)'
      /\ HistoryAppended =>
           /\ SubSeq(history', 2, Len(history'))
                = Take(history, HISTORY_CAP - 1) ]_vars

\* a seventh successful cycle evicted the entry of the first
C24_Witness ==
  /\ Len(Succeeded) = HISTORY_CAP + 1
  /\ Len(history) = HISTORY_CAP
  /\ history[HISTORY_CAP].aqi = Succeeded[2].value
  /\ Succeeded[1].value # Succeeded[2].value

----------------------------------------------------------------------------
(* Properties of the alert log *)

\* the reading a step evaluated last
Evaluated == readings'[Len(readings')]

\* the record the alert log gets for a delivered notification: the reading
\* and the threshold of its cycle
AlertRecord ==
  [id |-> now', label |-> Evaluated.label, aqi |-> Evaluated.value,
   observedAt |-> Val(inflight'[1].reading).observedAt,
   threshold |-> Evaluated.threshold]

\* C25: the alert log holds at most 5 records; a step that delivers a
\* notification prepends its record (label, value, observation time, the
\* threshold the reading was tested against) and drops what exceeds the cap;
\* any other step leaves the log as it was.
C25_AlertLogPerDelivery ==
  [][ /\ Len(alertLog') <= ALERT_LOG_CAP
      /\ Len(shown') <= 1
      /\ Len(shown') = 1 =>
           /\ alertLog' = Take(<<AlertRecord>> \o alertLog, ALERT_LOG_CAP)
           /\ AlertRecord.aqi >= AlertRecord.threshold * 10
      /\ Len(shown') = 0 => alertLog' = alertLog ]_vars

\* a sixth notification was delivered with the log full, and the log holds a
\* record taken under a threshold other than the current one
C25_Witness ==
  /\ Len(shown) = 1
  /\ Cardinality({k \in 1..Len(readings) : readings[k].displayed}) = ALERT_LOG_CAP + 1
  /\ Len(alertLog) = ALERT_LOG_CAP
  /\ \E k \in 1..Len(alertLog) : alertLog[k].threshold # alertThreshold

----------------------------------------------------------------------------
(* Properties of the reverse-geocode cache *)

\* the reverse-geocode effect ran in this step: a dependency changed
GeocodeRan == mounted /\ (location' # location \/ isMapLoaded' # isMapLoaded)

\* coordinates c are less than d away from the resolved coordinates p on
\* both axes
Within(p, c, d) == Abs(p.lat - c.lat) < d /\ Abs(p.lng - c.lng) < d

\* the step asked the geocoder
GeocoderAsked == Has(calls', "geocoder.geocode") \/ Len(geocodes') > Len(geocodes)

\* C26: when coordinates P were last resolved to a label and the effect
\* resolves coordinates Q less than 0.001 degree from P on both axes, the
\* geocoder is not asked, the label shown is the label of P and P stays the
\* resolved pair.
C26_NearbyReusesLabel ==
  [][ (/\ GeocodeRan
       /\ IsSome(location')
       /\ IsSome(lastResolvedPlacenameRef)
       /\ Within(Val(lastResolvedPlacenameRef), Val(location'), 10))
      => (/\ ~GeocoderAsked
          /\ locationLabel' = Val(lastResolvedPlacenameRef).label
          /\ lastResolvedPlacenameRef' = lastResolvedPlacenameRef) ]_vars

\* C26 witness: the geocoder named P, the position is now another one within
\* the threshold of P and the label shown is the name of P.
C26_Witness ==
  /\ IsSome(lastResolvedPlacenameRef) /\ IsSome(location)
  /\ Val(lastResolvedPlacenameRef).label = TextLabel(<<"P">>)
  /\ Val(location) # [lat |-> Val(lastResolvedPlacenameRef).lat,
                      lng |-> Val(lastResolvedPlacenameRef).lng]
  /\ Within(Val(lastResolvedPlacenameRef), Val(location), 10)
  /\ locationLabel = TextLabel(<<"P">>)
  /\ geocodes = <<>>

\* the geocoder's callback for request i ran in this step and took the
\* failure branch
CallbackFailed(i) ==
  /\ geocodes' = RemoveAt(geocodes, i)
  /\ Has(calls', "console.warn:Reverse geocode failed")

\* C27: when the geocoder answers a request that was not cancelled with a
\* failure status or without a result, and when the effect must ask for
\* coordinates while the maps script is not loaded, the label shown is the
\* coordinates formatted to four decimals and that label is kept as the
\* resolved pair; while a formatted-coordinates label is the resolved pair, a
\* resolve less than 0.001 degree from it does not ask the geocoder and
\* shows that label.
C27_FailureFallsBackAndIsCached ==
  [][ /\ \A i \in 1..Len(geocodes) :
           (CallbackFailed(i) /\ ~geocodes[i].cancelled)
           => LET c == [lat |-> geocodes[i].lat, lng |-> geocodes[i].lng]
              IN /\ locationLabel' = CoordinateLabel(c)
                 /\ lastResolvedPlacenameRef' =
                      Some([lat |-> c.lat, lng |-> c.lng, label |-> CoordinateLabel(c)])
      /\ (/\ GeocodeRan /\ IsSome(location') /\ ~isMapLoaded'
          /\ ~(/\ IsSome(lastResolvedPlacenameRef)
               /\ Within(Val(lastResolvedPlacenameRef), Val(location'), 10)))
         => LET c == Val(location')
            IN /\ ~GeocoderAsked
               /\ locationLabel' = CoordinateLabel(c)
               /\ lastResolvedPlacenameRef' =
                    Some([lat |-> c.lat, lng |-> c.lng, label |-> CoordinateLabel(c)])
      /\ (/\ GeocodeRan /\ IsSome(location')
          /\ IsSome(lastResolvedPlacenameRef)
          /\ Val(lastResolvedPlacenameRef).label.kind = "coordinates"
          /\ Within(Val(lastResolvedPlacenameRef), Val(location'), 10))
         => (/\ ~GeocoderAsked
             /\ locationLabel' = Val(lastResolvedPlacenameRef).label) ]_vars

\* C27 witness: the maps script is loaded, the geocoder has just failed for
\* the current position, no request is pending, and the formatted
\* coordinates of the position are shown and kept.
C27_Witness ==
  /\ isMapLoaded /\ IsSome(location) /\ geocodes = <<>>
  /\ Has(calls, "console.warn:Reverse geocode failed")
  /\ locationLabel = CoordinateLabel(Val(location))
  /\ lastResolvedPlacenameRef =
       Some([lat |-> Val(location).lat, lng |-> Val(location).lng,
             label |-> CoordinateLabel(Val(location))])

----------------------------------------------------------------------------
(* Properties of the city ranking *)

\* every request of the last refresh has settled
RankingComplete ==
  /\ rankingBatch # <<>>
  /\ \A i \in 1..Len(rankingBatch) : IsSome(rankingBatch[i])

\* candidate i failed: the request was rejected, the status is not ok, or the
\* response has neither a positive primary index nor a sub-indicator
RankingFailed(i) ==
  LET res == Val(rankingBatch[i])
  IN \/ res.status # "ok"
     \/ /\ ~(IsSome(res.aqi) /\ Val(res.aqi) > 0)
        /\ \A k \in 1..Len(FALLBACK_IAQI_KEYS) : ~IsSome(res.iaqi[FALLBACK_IAQI_KEYS[k]])

\* the candidates that did not fail
RankingValid == {i \in 1..Len(rankingBatch) : ~RankingFailed(i)}

\* C28: once the N requests of a refresh have settled, K of them failed, the
\* snapshot is no longer loading and lists exactly N-K entries, one for each
\* candidate that did not fail with the value derived from its response,
\* none for a candidate that failed, in ascending order of value, whatever
\* the snapshot before held.
C28_RankingIsValidSorted ==
  RankingComplete =>
    LET data == cityRankings.data
    IN /\ ~cityRankings.loading
       /\ Len(data) = Cardinality(RankingValid)
       /\ \A i \in RankingValid :
            \E k \in 1..Len(data) :
              /\ data[k].city = CITY_RANKING_CANDIDATES[i]
              /\ data[k].aqi = deriveAqiValue(Val(rankingBatch[i]))
       /\ \A i \in 1..Len(rankingBatch) :
            RankingFailed(i) =>
              \A k \in 1..Len(data) : data[k].city # CITY_RANKING_CANDIDATES[i]
       /\ \A k \in 1..Len(data) - 1 : Val(data[k].aqi) <= Val(data[k + 1].aqi)

\* C28 witness: a refresh over the six candidates settled with two failures
\* of different kinds and four entries, two of them with the same value.
C28_Witness ==
  /\ RankingComplete
  /\ Cardinality(RankingValid) = 4
  /\ Val(rankingBatch[1]).status = "rejected"
  /\ RankingFailed(3) /\ Val(rankingBatch[3]).status = "ok"
  /\ Len(cityRankings.data) = 4
  /\ cityRankings.data[1].aqi = cityRankings.data[2].aqi

----------------------------------------------------------------------------
(* Properties of the value derivation *)

\* a JSON value that is a number
IsNumeric(raw) == raw.kind = "number"

\* the keys of FALLBACK_IAQI_KEYS whose sub-indicator is a number, by position
NumericKeys(d) ==
  {i \in 1..Len(FALLBACK_IAQI_KEYS) : IsNumeric(d.iaqi[FALLBACK_IAQI_KEYS[i]])}

\* the value the rule gives for station record d: the primary index when it
\* is a number above 0, else the first sub-indicator that is a number,
\* rounded, else nothing
DerivedByRule(d) ==
  IF IsNumeric(d.aqi) /\ d.aqi.num > 0 THEN Some(d.aqi.num)
  ELSE IF NumericKeys(d) = {} THEN None
  ELSE LET first == CHOOSE i \in NumericKeys(d) : \A j \in NumericKeys(d) : i <= j
           v == d.iaqi[FALLBACK_IAQI_KEYS[first]].num
       IN Some(10 * ((v + 5) \div 10))

\* C29: deriveAqiValue returns the primary index when it is numeric and
\* above 0, otherwise the first numeric sub-indicator in the order pm25,
\* pm10, o3, no2, so2, co rounded to the nearest integer, otherwise null.
C29_DerivedByRule ==
  IsSome(result) => Val(result) = DerivedByRule(Val(arg))

----------------------------------------------------------------------------
(* Properties of the advisory tiers *)

\* the tiers in ascending order and the inclusive upper bound of each but the
\* last, in tenths
TierNames == <<"good", "moderate", "sensitive", "unhealthy", "very-unhealthy", "hazardous">>

TierUpperBounds == <<500, 1000, 1500, 2000, 3000>>

\* the tier of value v by the table: the first tier whose bound v does not
\* exceed, the last tier above every bound
TierByTable(v) ==
  LET fits == {k \in 1..Len(TierUpperBounds) : v <= TierUpperBounds[k]}
  IN IF fits = {} THEN TierNames[Len(TierNames)]
     ELSE TierNames[CHOOSE k \in fits : \A j \in fits : k <= j]

\* the tier a label of the status card stands for
TierOfStatus(label) ==
  CASE label = "Healthy" -> "good"
    [] label = "Moderate" -> "moderate"
    [] label = "Caution" -> "sensitive"
    [] label = "Unhealthy" -> "unhealthy"
    [] label = "Very Unhealthy" -> "very-unhealthy"
    [] label = "Hazardous" -> "hazardous"
    [] OTHER -> "none"

\* C30: for every value the advice is that of the tier the table gives with
\* inclusive upper bounds 50, 100, 150, 200, 300, and the status card shows
\* the label of the same tier.
C30_TiersAgree ==
  IsSome(result) =>
    /\ Val(result).advice = TierByTable(Val(arg))
    /\ TierOfStatus(Val(result).status) = Val(result).advice

\* C30 witness: the value 150, a bound, was given the advice and the status
\* of the tier it closes.
C30_Witness ==
  /\ arg = Some(1500)
  /\ result = Some([advice |-> "sensitive", status |-> "Caution"])

----------------------------------------------------------------------------
(* Properties of the station coordinate parser *)

\* a component that is a number: a JSON number, or a string that holds a
\* decimal number; null, the empty string, a boolean and a missing component
\* are not
NumericComponent(raw) ==
  \/ raw.kind = "number"
  \/ raw.kind = "string" /\ IsDigits(Trim(raw.text))

\* the components the parser is to read from a value: those of a pair, the
\* parts of a delimited string, the lat and lng-or-lon of an object
ComponentsOf(raw) ==
  IF raw.kind = "array" THEN raw.items
  ELSE IF raw.kind = "string"
    THEN LET parts == SplitParts(raw.text, <<>>)
         IN [k \in 1..Len(parts) |-> JString(parts[k])]
  ELSE IF raw.kind = "object"
    THEN <<raw.lat, IF raw.lng.kind \in {"null", "undefined"} THEN raw.lon ELSE raw.lng>>
  ELSE <<>>

\* C31: parseStationCoordinates returns the coordinates of a pair of
\* numbers, of a delimited string of two numbers and of an object with numeric
\* lat and lng-or-lon, and null for every other value, among them pairs and
\* objects with a null, empty or non-numeric component.
C31_ParsesOrAbsent ==
  IsSome(result) =>
    LET c == ComponentsOf(Val(arg))
        parseable == /\ Len(c) >= 2
                     /\ NumericComponent(c[1]) /\ NumericComponent(c[2])
    IN IF parseable
         THEN Val(result) = Some([lat |-> Val(Number(c[1])), lng |-> Val(Number(c[2]))])
         ELSE Val(result) = None

----------------------------------------------------------------------------
(* Properties of the city lookup *)

\* request i was answered in this step with a reading that was accepted
AcceptedReading(i) ==
  /\ inflight[i].phase = "request"
  /\ Len(inflight') = Len(inflight)
  /\ inflight'[i].phase = "persist"
  /\ aqi' = Some(Val(inflight'[i].reading).aqi)

\* request i asks for a city the user typed, by its name
ByCityName(i) == ~inflight[i].shouldUseGeo /\ Trim(inflight[i].env.city) # <<>>

\* the coordinates of the station of response p, if it carries a pair of
\* finite numbers
StationCoordinates(p) ==
  IF p.geo.kind = "array" /\ Len(p.geo.items) >= 2
     /\ p.geo.items[1] # None /\ p.geo.items[2] # None
    THEN <<[lat |-> p.geo.items[1][1], lng |-> p.geo.items[2][1]]>>
    ELSE <<>>

\* C32: the status becomes City lookup only in a step in which a request by
\* the name of a typed city is answered with an accepted reading; and
\* whenever such a request is answered with an accepted reading the status
\* is City lookup and the coordinates are those of the station if the station
\* carries coordinates, the coordinates held when the response arrived if
\* not; a response without a value changes neither.
C32_CityLookupOnlyByName ==
  [][ /\ (locationStatus' = "City lookup" /\ locationStatus # "City lookup")
         => \E i \in 1..Len(inflight) : AcceptedReading(i) /\ ByCityName(i)
      /\ \A i \in 1..Len(inflight), p \in CityLookupPayloads :
           (inflight[i].phase = "request" /\ ~inflight[i].shouldUseGeo)
           => LET s == Render(Begin, fetchAqiResponded(Begin, i, p, FALSE))
              IN IF p = PayloadNoValue
                   THEN s.locationStatus = locationStatus /\ s.location = location
                   ELSE /\ s.locationStatus = "City lookup"
                        /\ s.location = IF StationCoordinates(p) # <<>>
                                          THEN StationCoordinates(p) ELSE location ]_vars

\* C32 witness: a position was known, a city lookup was answered by a
\* station without coordinates, and the position is still the one known.
C32_Witness ==
  /\ locationStatus = "City lookup"
  /\ location = Some([lat |-> 100, lng |-> 100])
  /\ aqi = Some(1200)

----------------------------------------------------------------------------
(* Properties of a failed IP lookup *)

\* an IP lookup failed in this step: the catch block of
\* resolveApproximateLocation ran
LookupFailed == Has(calls', "console.warn:Approximate location fallback failed")

\* C33: the step in which an IP lookup fails starts no IP lookup: the
\* geolocation service is not called, the failed lookup is gone and none was
\* added, the status is the enter-a-city prompt and the single-flight guard
\* is reset.
C33_FailedLookupNotRetried ==
  [][ LookupFailed =>
        /\ ~Has(calls', "fetch:ipapi")
        /\ ~Has(calls', "resolveApproximateLocation")
        /\ Len(ipLookups') = Len(ipLookups) - 1
        /\ locationStatus' = "Enter a city to start"
        /\ ipFallbackTriggeredRef' = FALSE ]_vars

\* C33 witness: the only IP lookup has just failed; the prompt is shown, the
\* guard is reset and no lookup is in flight.
C33_Witness ==
  /\ Has(calls, "console.warn:Approximate location fallback failed")
  /\ locationStatus = "Enter a city to start"
  /\ ~ipFallbackTriggeredRef
  /\ ipLookups = <<>>
  /\ location = None

----------------------------------------------------------------------------
(* Properties of the GPS watch *)

\* the positions in a step's calls where the watch is opened and cleared
Opens(seq) == {k \in 1..Len(seq) : seq[k] = "watchPosition"}

Clears(seq) == {k \in 1..Len(seq) : seq[k] = "clearWatch"}

\* C34: at most one watchPosition subscription is open in every state and
\* none after teardown; a step opens at most one, and a step that opens one
\* while one is open clears that one before.
C34_AtMostOneWatch ==
  [][ /\ watches \in {0, 1} /\ watches' \in {0, 1}
      /\ unmounted' => watches' = 0 /\ ~watchOpen'
      /\ Cardinality(Opens(calls')) <= 1
      /\ (watches = 1 /\ Opens(calls') # {})
         => \E c \in Clears(calls') : \A o \in Opens(calls') : c < o ]_vars

\* C34 witness: the watch was re-established by a change of the city text
\* while open, the previous one cleared, and one watch is open.
C34_Witness ==
  /\ mounted /\ watches = 1 /\ city # <<>>
  /\ Has(calls, "clearWatch") /\ Has(calls, "watchPosition")

----------------------------------------------------------------------------
(* Properties of a reading of 40 *)

----------------------------------------------------------------------------
(* Properties of a network lookup that ends after a position was reported *)

\* a network lookup ended in this step
LookupEnded == Len(ipLookups') < Len(ipLookups)

\* C36: when the status is Live, the end of a network lookup that was
\* started earlier, with or without coordinates, leaves the coordinates of
\* the watch and the status Live as they are.
C36_LateLookupKeepsLive ==
  [][ (locationStatus = "Live" /\ IsSome(location) /\ LookupEnded)
      => (location' = location /\ locationStatus' = "Live") ]_vars

----------------------------------------------------------------------------
(* Properties of the history under overlapping cycles *)

\* C37: once no cycle is in flight, the newest entry of the history carries
\* the displayed index, and the entries of the history follow, newest
\* first, the order in which the responses of their cycles were processed.
C37_HistoryFollowsResponses ==
  inflight = <<>> =>
    /\ history # <<>> => aqi = Some(history[1].aqi)
    /\ Len(history) <= Len(readings)
    /\ \A k \in 1..Len(history) :
         history[k].aqi = readings[Len(readings) + 1 - k].value

----------------------------------------------------------------------------
(* Properties of the scheduler under edits of the city, the threshold and  *)
(* the notification permission                                             *)

\* with auto-refresh enabled and the cadence unchanged, the step changed
\* the city, the threshold or the notification permission
SchedulerBystanderChanged ==
  /\ mounted /\ mounted'
  /\ autoRefreshEnabled /\ autoRefreshEnabled'
  /\ autoRefreshMinutes' = autoRefreshMinutes
  /\ \/ city' # city
     \/ alertThreshold' # alertThreshold
     \/ notificationStatus' # notificationStatus

\* C38: while auto-refresh is enabled, a step that edits the city, changes
\* the threshold or changes the notification permission starts no cycle
\* (no provider request, no network lookup) and leaves the interval timer
\* as it was armed.
C38_EditsLeaveTheScheduler ==
  [][ SchedulerBystanderChanged
      => (/\ started' = started
          /\ Len(inflight') <= Len(inflight)
          /\ Len(ipLookups') <= Len(ipLookups)
          /\ timers' = timers) ]_vars

----------------------------------------------------------------------------
(* Properties of late answers of the geocoder *)

\* the coordinates request g asked about are not the current ones, or the
\* page was torn down
Outdated(g) ==
  \/ unmounted
  \/ ~IsSome(location)
  \/ Val(location).lat # g.lat
  \/ Val(location).lng # g.lng

\* the geocoder answered request i in this step
GeocoderAnswered(i) == geocodes' = RemoveAt(geocodes, i)

\* C39: the answer to a reverse-geocode request made for coordinates other
\* than the current ones, made before the coordinates last changed, or
\* arriving after the page was torn down, changes neither the resolved pair
\* nor the label; a step that changes the coordinates or tears the page
\* down leaves only its own request uncancelled; and whenever the resolved
\* pair is written it carries the current coordinates.
C39_LateAnswerDiscarded ==
  [][ /\ \A i \in 1..Len(geocodes) :
           (GeocoderAnswered(i) /\ (Outdated(geocodes[i]) \/ geocodes[i].cancelled))
           => (/\ lastResolvedPlacenameRef' = lastResolvedPlacenameRef
               /\ locationLabel' = locationLabel)
      /\ (location' # location \/ (unmounted' /\ ~unmounted))
           => \A k \in 1..Len(geocodes') :
                \/ geocodes'[k].cancelled
                \/ /\ k = Len(geocodes') /\ Len(geocodes') = Len(geocodes) + 1
                   /\ ~unmounted' /\ IsSome(location')
                   /\ Val(location').lat = geocodes'[k].lat
                   /\ Val(location').lng = geocodes'[k].lng
      /\ (lastResolvedPlacenameRef' # lastResolvedPlacenameRef
          /\ IsSome(lastResolvedPlacenameRef'))
           => (/\ ~unmounted' /\ IsSome(location')
               /\ Val(lastResolvedPlacenameRef').lat = Val(location').lat
               /\ Val(lastResolvedPlacenameRef').lng = Val(location').lng) ]_vars

\* the watch reported two positions with the maps script loaded; one
\* request is pending for the current position, the other one was answered
\* after the position had changed and nothing was kept of it (the label is
\* the one of the station of the last reading)
C39_Witness ==
  /\ mounted /\ isMapLoaded
  /\ started = 2
  /\ IsSome(location)
  /\ lastResolvedPlacenameRef = None
  /\ Len(geocodes) = 1
  /\ ~geocodes[1].cancelled /\ ~Outdated(geocodes[1])
  /\ locationLabel = TextLabel(<<"S">>)

----------------------------------------------------------------------------
(* Properties of coordinates once obtained *)

\* C40: once the location holds coordinates, whatever their source, no step
\* makes it absent again, and the resolved pair of the reverse geocoder,
\* once written, is never reset to nothing.
C40_LocationNeverCleared ==
  [][ IsSome(location)
      => (/\ IsSome(location')
          /\ IsSome(lastResolvedPlacenameRef) => IsSome(lastResolvedPlacenameRef')) ]_vars

\* coordinates were obtained and a network lookup failed afterwards: the
\* status asks for a city while the coordinates and the resolved pair are
\* still there
C40_Witness ==
  /\ IsSome(location)
  /\ IsSome(lastResolvedPlacenameRef)
  /\ locationStatus = "Enter a city to start"
  /\ locationLabel = FallbackLabel

====
